---- MODULE Spec2Model ----
(***************************************************************************)
(* Model of nictowey/codex: the scoring, normalisation and portfolio       *)
(* engine (app.core.metrics, app.core.scoring_engine, app.scoring.*,       *)
(* app.core.portfolio), the backtests and weight tuning                    *)
(* (app.core.backtesting, app.core.tuning) and the data layer              *)
(* (app.data.providers, app.data.ingestion, app.data.cache,                *)
(* app.core.pipeline).                                                     *)
(*                                                                         *)
(* Python floats are IEEE-754 binary64.  Every arithmetic step of the code *)
(* is modelled with its rounding: a float is a sign, a 53-bit significand  *)
(* and a binary exponent, and + - * / round to nearest, ties to even.  The *)
(* significand does not fit a TLC integer, so it is kept as a sequence of  *)
(* 15-bit limbs, least significant first.  Infinities and subnormals are   *)
(* outside the model, and so is NaN in arithmetic: every float operand is  *)
(* zero or a normal number of moderate magnitude, and the NaN of a pandas  *)
(* column in the tuning module is a marker that is tested, never computed  *)
(* with.                                                                   *)
(***************************************************************************)
EXTENDS Integers, Sequences, FiniteSets, TLC

(***************************************************************************)
(* Natural numbers of arbitrary size: sequences of limbs in base 2^15,     *)
(* least significant limb first, no leading (most significant) zero limb;  *)
(* zero is the empty sequence.                                             *)
(***************************************************************************)
LimbBits == 15

LimbBase == 32768

RECURSIVE Pow2(_)
Pow2(k) == IF k = 0 THEN 1 ELSE 2 * Pow2(k - 1)

RECURSIVE BNorm(_)
BNorm(a) ==
  IF a = <<>> THEN <<>>
  ELSE IF a[Len(a)] = 0 THEN BNorm(SubSeq(a, 1, Len(a) - 1)) ELSE a

RECURSIVE BFromInt(_)
BFromInt(n) ==
  IF n = 0 THEN <<>> ELSE <<n % LimbBase>> \o BFromInt(n \div LimbBase)

Limb(a, i) == IF i <= Len(a) THEN a[i] ELSE 0

RECURSIVE BCmpFrom(_, _, _)
BCmpFrom(a, b, i) ==
  IF i = 0 THEN 0
  ELSE IF a[i] > b[i] THEN 1
  ELSE IF a[i] < b[i] THEN -1
  ELSE BCmpFrom(a, b, i - 1)

\* -1, 0 or 1 as a < b, a = b, a > b
BCmp(a, b) ==
  IF Len(a) > Len(b) THEN 1
  ELSE IF Len(a) < Len(b) THEN -1
  ELSE BCmpFrom(a, b, Len(a))

RECURSIVE BAddFrom(_, _, _, _)
BAddFrom(a, b, i, carry) ==
  IF i > Len(a) /\ i > Len(b)
  THEN (IF carry = 0 THEN <<>> ELSE <<carry>>)
  ELSE LET s == Limb(a, i) + Limb(b, i) + carry
       IN  <<s % LimbBase>> \o BAddFrom(a, b, i + 1, s \div LimbBase)

BAdd(a, b) == BAddFrom(a, b, 1, 0)

RECURSIVE BSubFrom(_, _, _, _)
BSubFrom(a, b, i, borrow) ==
  IF i > Len(a) THEN <<>>
  ELSE LET d == a[i] - Limb(b, i) - borrow
       IN  IF d < 0
           THEN <<d + LimbBase>> \o BSubFrom(a, b, i + 1, 1)
           ELSE <<d>> \o BSubFrom(a, b, i + 1, 0)

\* a - b for a >= b
BSub(a, b) == BNorm(BSubFrom(a, b, 1, 0))

RECURSIVE BMulSmallFrom(_, _, _, _)
BMulSmallFrom(a, k, i, carry) ==
  IF i > Len(a)
  THEN (IF carry = 0 THEN <<>> ELSE <<carry>>)
  ELSE LET p == a[i] * k + carry
       IN  <<p % LimbBase>> \o BMulSmallFrom(a, k, i + 1, p \div LimbBase)

\* a * k for 0 <= k < 2^15
BMulSmall(a, k) == IF k = 0 THEN <<>> ELSE BMulSmallFrom(a, k, 1, 0)

Zeros(q) == [i \in 1..q |-> 0]

RECURSIVE BMulFrom(_, _, _)
BMulFrom(a, b, i) ==
  IF i > Len(b) THEN <<>>
  ELSE BAdd(IF b[i] = 0 THEN <<>> ELSE Zeros(i - 1) \o BMulSmall(a, b[i]),
            BMulFrom(a, b, i + 1))

BMul(a, b) == IF a = <<>> \/ b = <<>> THEN <<>> ELSE BMulFrom(a, b, 1)

\* a * 2^k
BShl(a, k) ==
  IF a = <<>> THEN <<>>
  ELSE Zeros(k \div LimbBits) \o BMulSmall(a, Pow2(k % LimbBits))

\* floor(a / 2^k)
BShr(a, k) ==
  LET q == k \div LimbBits
      r == k % LimbBits
      d == Pow2(r)
      u == Pow2(LimbBits - r)
  IN  IF q >= Len(a) THEN <<>>
      ELSE BNorm([i \in 1..(Len(a) - q) |->
                    (a[i + q] \div d) + (Limb(a, i + q + 1) % d) * u])

RECURSIVE IntBitLen(_)
IntBitLen(n) == IF n = 0 THEN 0 ELSE 1 + IntBitLen(n \div 2)

BBitLen(a) ==
  IF a = <<>> THEN 0 ELSE LimbBits * (Len(a) - 1) + IntBitLen(a[Len(a)])

\* bit i of a, bit 0 the least significant
BBit(a, i) == (Limb(a, (i \div LimbBits) + 1) \div Pow2(i % LimbBits)) % 2

\* a mod 2^k = 0
BLowZero(a, k) == BShl(BShr(a, k), k) = a

BOne == <<1>>

(***************************************************************************)
(* binary64: value = sgn * man * 2^exp, man a 53-bit natural (2^52 <= man  *)
(* < 2^53) or zero.  The representation of a value is unique, so equality  *)
(* of records is equality of floats (a negative zero is not kept apart:    *)
(* Python compares -0.0 == 0.0).                                           *)
(***************************************************************************)
MantBits == 53

\* 0.0
F0 == [sgn |-> 1, man |-> <<>>, exp |-> 0]

IsZero(x) == x.man = <<>>

\* a rounded significand q1 <= 2^53 at exponent e: 2^53 is 2^52 one exponent up
FCarry(sgn, q1, e) ==
  IF BBitLen(q1) > MantBits
  THEN [sgn |-> sgn, man |-> BShr(q1, 1), exp |-> e + 1]
  ELSE [sgn |-> sgn, man |-> q1, exp |-> e]

\* n has k bits more than a significand holds: for k <= 0 it is shifted up
\* exactly; otherwise the low k bits are rounded off, to nearest, ties to even
FRoundBits(sgn, n, e, k) ==
  IF k <= 0
  THEN [sgn |-> sgn, man |-> BShl(n, -k), exp |-> e + k]
  ELSE FCarry(sgn,
              IF BBit(n, k - 1) = 1 /\ (BBit(BShr(n, k), 0) = 1 \/ ~BLowZero(n, k - 1))
              THEN BAdd(BShr(n, k), BOne)
              ELSE BShr(n, k),
              e + k)

\* sgn * n * 2^e rounded to nearest, ties to even
FRound(sgn, n, e) ==
  IF n = <<>> THEN F0 ELSE FRoundBits(sgn, n, e, BBitLen(n) - MantBits)

\* int -> float (exact below 2^53)
FromInt(n) == FRound(IF n < 0 THEN -1 ELSE 1, BFromInt(IF n < 0 THEN -n ELSE n), 0)

FNeg(x) == IF IsZero(x) THEN x ELSE [x EXCEPT !.sgn = -x.sgn]

MinInt(a, b) == IF a <= b THEN a ELSE b

\* comparison of magnitudes |x| ? |y| : -1, 0, 1
MagCmp(x, y) ==
  IF IsZero(x) THEN (IF IsZero(y) THEN 0 ELSE -1)
  ELSE IF IsZero(y) THEN 1
  ELSE IF x.exp > y.exp THEN 1
  ELSE IF x.exp < y.exp THEN -1
  ELSE BCmp(x.man, y.man)

\* x ? y : -1, 0, 1
FCmp(x, y) ==
  LET sx == IF IsZero(x) THEN 0 ELSE x.sgn
      sy == IF IsZero(y) THEN 0 ELSE y.sgn
  IN  IF sx # sy THEN (IF sx < sy THEN -1 ELSE 1)
      ELSE IF sx = 0 THEN 0
      ELSE sx * MagCmp(x, y)

FLt(x, y) == FCmp(x, y) < 0

FLe(x, y) == FCmp(x, y) <= 0

FGt(x, y) == FCmp(x, y) > 0

FGe(x, y) == FCmp(x, y) >= 0

\* sx * a * 2^e + sy * b * 2^e, rounded once
FAddAligned(sx, a, sy, b, e) ==
  FRound(IF sx = sy \/ BCmp(a, b) >= 0 THEN sx ELSE sy,
         IF sx = sy THEN BAdd(a, b)
         ELSE IF BCmp(a, b) >= 0 THEN BSub(a, b)
         ELSE BSub(b, a),
         e)

FAdd(x, y) ==
  IF IsZero(x) THEN y
  ELSE IF IsZero(y) THEN x
  ELSE FAddAligned(x.sgn, BShl(x.man, x.exp - MinInt(x.exp, y.exp)),
                   y.sgn, BShl(y.man, y.exp - MinInt(x.exp, y.exp)),
                   MinInt(x.exp, y.exp))

FSub(x, y) == FAdd(x, FNeg(y))

FMul(x, y) ==
  IF IsZero(x) \/ IsZero(y) THEN F0
  ELSE FRound(x.sgn * y.sgn, BMul(x.man, y.man), x.exp + y.exp)

\* r >= q * d: add to q while the remainder r still holds d
RECURSIVE DivFix(_, _, _)
DivFix(q, r, d) == IF BCmp(r, d) >= 0 THEN DivFix(q + 1, BSub(r, d), d) ELSE <<q, r>>

\* <<floor(r / d), r mod d>> from an estimate est <= floor(r / d)
DivFrom(est, r, d) == DivFix(est, BSub(r, BMulSmall(d, est)), d)

\* one base-2^15 digit of long division by a 53-bit d, for r < d * 2^15.
\* The digit is estimated from the leading bits (never too large) and then
\* corrected.
DivDigit(r, d) ==
  LET lead(x) == Limb(BShr(x, 38), 1) + LimbBase * Limb(BShr(x, 38), 2)
  IN  DivFrom(lead(r) \div (lead(d) + 1), r, d)

\* k more digits after the step s = <<digit, remainder>>; q holds the digits
\* before it, least significant first.  The result is <<quotient, remainder>>.
\* A step is evaluated before the next one is taken.
RECURSIVE DivDigits(_, _, _, _)
DivDigits(k, q, s, d) ==
  IF k = 0 THEN <<BNorm(<<s[1]>> \o q), s[2]>>
  ELSE CHOOSE qr \in {DivDigits(k - 1, <<digit>> \o q, DivDigit(<<0>> \o rest, d), d) :
                        digit \in {s[1]}, rest \in {s[2]}} : TRUE

\* the quotient qr[1] with a sticky bit for a remainder qr[2] # 0, rounded once
FDivRound(sgn, qr, e) ==
  FRound(sgn, BAdd(BMulSmall(qr[1], 2), IF qr[2] = <<>> THEN <<>> ELSE BOne), e)

\* x / y for y # 0 (the callers guard the division): 61 quotient bits of
\* man(x) / man(y), a sticky bit for the remainder, then one rounding
FDiv(x, y) ==
  IF IsZero(x) THEN F0
  ELSE FDivRound(x.sgn * y.sgn, DivDigits(4, <<>>, DivFix(0, x.man, y.man), y.man),
                 x.exp - y.exp - 4 * LimbBits - 1)

RECURSIVE BPow10(_)
BPow10(k) == IF k = 0 THEN BOne ELSE BMulSmall(BPow10(k - 1), 10)

\* the float that the decimal literal m * 10^e denotes (0.08 is Dec(8, -2),
\* 1e10 is Dec(1, 10)): the nearest float, as Python parses it.  For e >= 0
\* the product is an exact integer; for e < 0 numerator and denominator are
\* exact floats and the division rounds once.
Dec(m, e) ==
  IF e >= 0
  THEN FRound(IF m < 0 THEN -1 ELSE 1, BMul(BFromInt(IF m < 0 THEN -m ELSE m), BPow10(e)), 0)
  ELSE FDiv(FromInt(m), FRound(1, BPow10(-e), 0))

\* Python's None
None == [none |-> TRUE]

\* a table of decimal literals <<m, e>> as floats, depth levels of nesting
\* down; the empty tuple stands for None
RECURSIVE Floats(_, _)
Floats(t, depth) ==
  IF depth = 0 THEN (IF t = <<>> THEN None ELSE Dec(t[1], t[2]))
  ELSE [k \in DOMAIN t |-> Floats(t[k], depth - 1)]

FMax(x, y) == IF FGt(y, x) THEN y ELSE x

FMin(x, y) == IF FLt(y, x) THEN y ELSE x

\* 1.0 = 2^52 * 2^-52
F1 == [sgn |-> 1, man |-> <<0, 0, 0, 128>>, exp |-> -52]

\* a raised exception, as a value
Raised(kind) == [raised |-> kind]

\* a scorer that passes the optional metric through unchanged
OrZeroMissing(x) == x

\* `x or 0.0` for an Optional[float]
OrZero(x) == IF x = None \/ IsZero(x) THEN F0 ELSE x

(***************************************************************************)
(* app/core/metrics.py: clamp                                              *)
(***************************************************************************)
\* max(min_value, min(max_value, value)) under the defaults min_value=0.0,
\* max_value=1.0, which every call takes
clamp(value) == FMax(F0, FMin(F1, value))

(***************************************************************************)
(* app/scoring/utils.py                                                    *)
(***************************************************************************)
\* Python's sum() over a sequence of floats: 0 + x1 + x2 + ..., left to right
RECURSIVE SumTo(_, _)
SumTo(xs, n) == IF n = 0 THEN F0 ELSE FAdd(SumTo(xs, n - 1), xs[n])

FSum(xs) == SumTo(xs, Len(xs))

\* weights.get(key, 0.0)
Get(weights, key) == IF key \in DOMAIN weights THEN weights[key] ELSE F0

\* lines 11-13: 0.0 for a zero denominator, else the quotient
Quotient(numerator, denominator) ==
  IF IsZero(denominator) THEN F0 ELSE FDiv(numerator, denominator)

\* the numerator alone
weighted_sum(keys, values, weights) ==
  FSum([i \in 1..Len(keys) |-> FMul(values[keys[i]], Get(weights, keys[i]))])

\* keys: the insertion order of the dict `values`
weighted_average(keys, values, weights) ==
  Quotient(FSum([i \in 1..Len(keys) |-> FMul(values[keys[i]], Get(weights, keys[i]))]),
           FSum([i \in 1..Len(keys) |-> Get(weights, keys[i])]))

\* smooth_step without its branch for upper == lower
smooth_step_no_degenerate(value, lower, upper) ==
  IF value = None THEN Raised("TypeError")
  ELSE IF FLe(value, lower) THEN F0
  ELSE IF FGe(value, upper) THEN F1
  ELSE clamp(FDiv(FSub(value, lower), FSub(upper, lower)))

\* comparing None with a float raises TypeError
smooth_step(value, lower, upper) ==
  IF value = None THEN Raised("TypeError")
  ELSE IF upper = lower THEN clamp(IF FGe(value, upper) THEN F1 ELSE F0)
  ELSE IF FLe(value, lower) THEN F0
  ELSE IF FGe(value, upper) THEN F1
  ELSE clamp(FDiv(FSub(value, lower), FSub(upper, lower)))

inverse_smooth_step(value, lower, upper) ==
  IF value = None THEN Raised("TypeError")
  ELSE IF FLe(value, lower) THEN F1
  ELSE IF FGe(value, upper) THEN F0
  ELSE clamp(FSub(F1, FDiv(FSub(value, lower), FSub(upper, lower))))

(***************************************************************************)
(* app/scoring/{growth,quality,catalysts,valuation,risk}.py                *)
(* Each scorer: the component table, the weight table, clamp(weighted      *)
(* average).  Bounds and weights are the literals of the source, written   *)
(* <<m, e>> for m * 10^e.  An exception raised while the component table   *)
(* is built leaves the scorer.                                             *)
(***************************************************************************)
\* return clamp(weighted_average(components, weights)), once the component
\* table has been built
Score(keys, components, weights) ==
  IF \E k \in DOMAIN components : components[k] = Raised("TypeError")
  THEN Raised("TypeError")
  ELSE clamp(weighted_average(keys, components, weights))

GrowthKeys ==
  <<"revenue_cagr", "revenue_acceleration", "ebit_margin_trend", "fcf_margin", "backlog_growth">>

GrowthWeights ==
  Floats(
    [revenue_cagr |-> <<32, -2>>, revenue_acceleration |-> <<22, -2>>,
     ebit_margin_trend |-> <<18, -2>>, fcf_margin |-> <<18, -2>>,
     backlog_growth |-> <<10, -2>>], 1)

GrowthBounds ==
  Floats(
    [revenue_cagr |-> <<<<8, -2>>, <<35, -2>>>>,
     revenue_acceleration |-> <<<<0, 0>>, <<12, -2>>>>,
     ebit_margin_trend |-> <<<<0, 0>>, <<8, -2>>>>,
     fcf_margin |-> <<<<5, -2>>, <<2, -1>>>>,
     backlog_growth |-> <<<<0, 0>>, <<25, -2>>>>], 2)

GrowthComponents(metrics, b) ==
  [revenue_cagr |-> smooth_step(metrics.revenue_cagr_3y, b.revenue_cagr[1], b.revenue_cagr[2]),
   revenue_acceleration |->
     smooth_step(metrics.revenue_acceleration, b.revenue_acceleration[1],
                 b.revenue_acceleration[2]),
   ebit_margin_trend |->
     smooth_step(metrics.ebit_margin_trend, b.ebit_margin_trend[1], b.ebit_margin_trend[2]),
   fcf_margin |-> smooth_step(metrics.fcf_margin, b.fcf_margin[1], b.fcf_margin[2]),
   backlog_growth |->
     smooth_step(OrZero(metrics.backlog_growth), b.backlog_growth[1], b.backlog_growth[2])]

score_growth(metrics) ==
  Score(GrowthKeys, GrowthComponents(metrics, GrowthBounds), GrowthWeights)

QualityKeys == <<"roic", "roic_trend", "leverage", "coverage", "asset_turnover">>

QualityWeights ==
  Floats(
    [roic |-> <<3, -1>>, roic_trend |-> <<2, -1>>, leverage |-> <<2, -1>>,
     coverage |-> <<2, -1>>, asset_turnover |-> <<1, -1>>], 1)

QualityBounds ==
  Floats(
    [roic |-> <<<<8, -2>>, <<25, -2>>>>,
     roic_trend |-> <<<<0, 0>>, <<6, -2>>>>,
     leverage |-> <<<<0, 0>>, <<25, -1>>>>,
     coverage |-> <<<<4, 0>>, <<15, 0>>>>,
     asset_turnover |-> <<<<0, 0>>, <<15, -2>>>>], 2)

QualityComponents(metrics, b) ==
  [roic |-> smooth_step(metrics.roic, b.roic[1], b.roic[2]),
   roic_trend |-> smooth_step(metrics.roic_trend, b.roic_trend[1], b.roic_trend[2]),
   leverage |-> inverse_smooth_step(metrics.net_debt_to_ebitda, b.leverage[1], b.leverage[2]),
   coverage |-> smooth_step(metrics.interest_coverage, b.coverage[1], b.coverage[2]),
   asset_turnover |->
     smooth_step(metrics.asset_turnover_trend, b.asset_turnover[1], b.asset_turnover[2])]

score_quality(metrics) ==
  Score(QualityKeys, QualityComponents(metrics, QualityBounds), QualityWeights)

CatalystKeys == <<"theme", "earnings", "insider", "strategic">>

CatalystWeights ==
  Floats(
    [theme |-> <<35, -2>>, earnings |-> <<3, -1>>, insider |-> <<2, -1>>,
     strategic |-> <<15, -2>>], 1)

CatalystBounds ==
  Floats(
    [theme |-> <<<<2, -1>>, <<9, -1>>>>,
     earnings |-> <<<<0, 0>>, <<25, -2>>>>,
     insider |-> <<<<0, 0>>, <<7, -1>>>>,
     strategic |-> <<<<0, 0>>, <<5, -1>>>>], 2)

CatalystComponents(metrics, b) ==
  [theme |-> smooth_step(metrics.theme_alignment, b.theme[1], b.theme[2]),
   earnings |-> smooth_step(metrics.earnings_revision_trend, b.earnings[1], b.earnings[2]),
   insider |-> smooth_step(metrics.insider_activity_score, b.insider[1], b.insider[2]),
   strategic |->
     smooth_step(OrZero(metrics.strategic_investor_presence), b.strategic[1], b.strategic[2])]

score_catalysts(metrics) ==
  Score(CatalystKeys, CatalystComponents(metrics, CatalystBounds), CatalystWeights)

ValuationKeys == <<"peg", "ev_ebitda", "fcf_yield", "momentum", "consolidation">>

ValuationWeights ==
  Floats(
    [peg |-> <<25, -2>>, ev_ebitda |-> <<2, -1>>, fcf_yield |-> <<2, -1>>,
     momentum |-> <<2, -1>>, consolidation |-> <<15, -2>>], 1)

ValuationBounds ==
  Floats(
    [peg |-> <<<<5, -1>>, <<2, 0>>>>,
     ev_ebitda |-> <<<<-2, 0>>, <<3, 0>>>>,
     fcf_yield |-> <<<<0, 0>>, <<6, -2>>>>,
     momentum |-> <<<<0, 0>>, <<3, -1>>>>,
     consolidation |-> <<<<2, -1>>, <<8, -1>>>>], 2)

ValuationComponents(metrics, b) ==
  [peg |-> inverse_smooth_step(metrics.peg_ratio, b.peg[1], b.peg[2]),
   ev_ebitda |->
     inverse_smooth_step(metrics.ev_to_ebitda_vs_peers, b.ev_ebitda[1], b.ev_ebitda[2]),
   fcf_yield |-> smooth_step(metrics.free_cash_flow_yield, b.fcf_yield[1], b.fcf_yield[2]),
   momentum |-> smooth_step(metrics.price_momentum, b.momentum[1], b.momentum[2]),
   consolidation |->
     smooth_step(metrics.consolidation_score, b.consolidation[1], b.consolidation[2])]

score_valuation(metrics) ==
  Score(ValuationKeys, ValuationComponents(metrics, ValuationBounds), ValuationWeights)

RiskKeys == <<"market_cap", "liquidity", "beta", "volatility", "drawdown">>

RiskWeights ==
  Floats(
    [market_cap |-> <<25, -2>>, liquidity |-> <<25, -2>>, beta |-> <<2, -1>>,
     volatility |-> <<2, -1>>, drawdown |-> <<1, -1>>], 1)

\* 3e8 .. 1e10, 5e6 .. 5e7, 0.8 .. 1.6, 0.2 .. 0.6, 0.15 .. 0.45
RiskBounds ==
  Floats(
    [market_cap |-> <<<<3, 8>>, <<1, 10>>>>,
     liquidity |-> <<<<5, 6>>, <<5, 7>>>>,
     beta |-> <<<<8, -1>>, <<16, -1>>>>,
     volatility |-> <<<<2, -1>>, <<6, -1>>>>,
     drawdown |-> <<<<15, -2>>, <<45, -2>>>>], 2)

RiskComponents(metrics, b) ==
  [market_cap |-> smooth_step(metrics.market_cap, b.market_cap[1], b.market_cap[2]),
   liquidity |->
     smooth_step(metrics.avg_daily_dollar_volume, b.liquidity[1], b.liquidity[2]),
   beta |-> inverse_smooth_step(metrics.beta, b.beta[1], b.beta[2]),
   volatility |-> inverse_smooth_step(metrics.volatility_3y, b.volatility[1], b.volatility[2]),
   drawdown |-> inverse_smooth_step(metrics.drawdown_1y, b.drawdown[1], b.drawdown[2])]

score_risk(metrics) ==
  Score(RiskKeys, RiskComponents(metrics, RiskBounds), RiskWeights)

(***************************************************************************)
(* app/core/metrics.py: WeightConfig, ScoreBreakdown                       *)
(***************************************************************************)
\* WeightConfig(growth, quality, catalysts, valuation, risk)
WC(g, q, c, v, r) == [growth |-> g, quality |-> q, catalysts |-> c, valuation |-> v, risk |-> r]

\* WeightConfig(): the dataclass defaults
DefaultWeights == Floats(WC(<<32, -2>>, <<22, -2>>, <<18, -2>>, <<18, -2>>, <<10, -2>>), 1)

\* self.growth + self.quality + self.catalysts + self.valuation + self.risk
Total(self) ==
  FAdd(FAdd(FAdd(FAdd(self.growth, self.quality), self.catalysts), self.valuation), self.risk)

\* lines 116-122: every weight times scale
Scaled(self, scale) ==
  WC(FMul(self.growth, scale), FMul(self.quality, scale), FMul(self.catalysts, scale),
     FMul(self.valuation, scale), FMul(self.risk, scale))

\* lines 108-114: the same weight for every factor
Uniform(equal_weight) == WC(equal_weight, equal_weight, equal_weight, equal_weight, equal_weight)

\* normalized without the scaling
normalized_unscaled(self) == self

\* normalized whose fallback weight is 1 instead of 1 / 5
normalized_fallback_one(self) ==
  IF FLe(Total(self), F0) THEN Uniform(F1) ELSE Scaled(self, FDiv(F1, Total(self)))

\* lines 105-122, for the total of line 104
NormalizedFrom(self, total) ==
  IF FLe(total, F0)
  THEN Uniform(FDiv(F1, FromInt(5)))
  ELSE Scaled(self, FDiv(F1, total))

\* WeightConfig.normalized
normalized(self) == NormalizedFrom(self, Total(self))

\* WeightConfig.to_dict: the dict of the normalized weights
to_dict(self) == normalized(self)

\* lines 160-166: the sum of the factor scores times their weights
WeightedSum(self, weights) ==
  FAdd(FAdd(FAdd(FAdd(FMul(self.growth, weights.growth),
                      FMul(self.quality, weights.quality)),
                 FMul(self.catalysts, weights.catalysts)),
            FMul(self.valuation, weights.valuation)),
       FMul(self.risk, weights.risk))

\* composite that reads the default preset whatever weights are stored
composite_preset_only(self) == WeightedSum(self, to_dict(normalized(DefaultWeights)))

\* ScoreBreakdown.composite (a property: recomputed from the fields at every read)
composite(self) ==
  WeightedSum(self,
              to_dict(normalized(IF self.weights = None THEN DefaultWeights ELSE self.weights)))

(***************************************************************************)
(* app/core/scoring_engine.py                                              *)
(***************************************************************************)
evaluate_company(indicators, weight_config) ==
  [ticker |-> indicators.ticker,
   name |-> indicators.name,
   growth |-> score_growth(indicators.growth),
   quality |-> score_quality(indicators.quality),
   catalysts |-> score_catalysts(indicators.catalysts),
   valuation |-> score_valuation(indicators.valuation),
   risk |-> score_risk(indicators.risk),
   weights |-> weight_config]

\* a descending sort that puts an item before the earlier items of equal key
RECURSIVE SortedOrderUnstable(_, _)
SortedOrderUnstable(keys, n) ==
  IF n = 0 THEN <<>>
  ELSE LET prev == SortedOrderUnstable(keys, n - 1)
           p == Cardinality({k \in 1..Len(prev) : FGt(keys[prev[k]], keys[n])})
       IN  SubSeq(prev, 1, p) \o <<n>> \o SubSeq(prev, p + 1, Len(prev))

\* sorted(items, key=..., reverse=True) is stable: an item goes after every
\* item whose key is greater or equal.  keys[i] is the key of items[i];
\* the result lists the indices 1..n in sorted order.
RECURSIVE SortedOrder(_, _)
SortedOrder(keys, n) ==
  IF n = 0 THEN <<>>
  ELSE LET prev == SortedOrder(keys, n - 1)
           p == Cardinality({k \in 1..Len(prev) : FGe(keys[prev[k]], keys[n])})
       IN  SubSeq(prev, 1, p) \o <<n>> \o SubSeq(prev, p + 1, Len(prev))

\* line 36: sorted(scores, key=lambda item: item.composite, reverse=True)
\* the local list `scores` of line 35 next to the sorted list returned
Sorted(scores) ==
  LET order == SortedOrder([j \in 1..Len(scores) |-> composite(scores[j])], Len(scores))
  IN  [scores |-> scores, ranked |-> [i \in 1..Len(scores) |-> scores[order[i]]]]

rank_companies(indicators, weight_config) ==
  Sorted([i \in 1..Len(indicators) |-> evaluate_company(indicators[i], weight_config)])

(***************************************************************************)
(* app/core/portfolio.py                                                   *)
(***************************************************************************)
\* getattr on a slotted dataclass instance: only the declared fields exist
HasAttr(obj, attr) == attr \in DOMAIN obj

\* truth value of an Optional[str] (None is kept as "": both are falsy and
\* only the truth value is read) and of an Optional[dict] (None as the
\* empty dict)
TruthyStr(x) == x # ""

TruthyDict(x) == DOMAIN x # {}

\* a liquidity penalty that is never applied
PenalisedNever(liquidity_penalty, below, by) == liquidity_penalty

\* `if below: liquidity_penalty *= factor`
Penalised(liquidity_penalty, below, by) ==
  IF below THEN FMul(liquidity_penalty, by) ELSE liquidity_penalty

\* liquidity_penalty and volatility_penalty first, then the returned expression
_raw_weight(score, indicators) ==
  CHOOSE weight \in
    {FDiv(FMul(positive, liquidity_penalty), volatility_penalty) :
       liquidity_penalty \in
         {Penalised(Penalised(F1, FLt(indicators.risk.avg_daily_dollar_volume, Dec(1, 7)),
                              Dec(7, -1)),
                    FLt(indicators.risk.market_cap, Dec(1, 9)), Dec(5, -1))},
       volatility_penalty \in {FMax(indicators.risk.volatility_3y, Dec(15, -2))},
       positive \in {FMax(read, F0) : read \in {composite(score)}}} : TRUE

\* line 86: `data.sector or data.metadata.get("sector") if data.metadata else None`
\* is `(A or B) if C else None`; C is evaluated first
SectorName(data) ==
  IF ~HasAttr(data, "metadata") THEN Raised("AttributeError")
  ELSE IF ~TruthyDict(data.metadata) THEN [value |-> ""]
  ELSE IF ~HasAttr(data, "sector") THEN Raised("AttributeError")
  ELSE IF TruthyStr(data.sector) THEN [value |-> data.sector]
  ELSE IF "sector" \in DOMAIN data.metadata THEN [value |-> data.metadata.sector]
  ELSE [value |-> ""]

PositionNotes(data) ==
  (IF FLt(data.risk.avg_daily_dollar_volume, Dec(2, 7))
   THEN <<"Thin liquidity - size carefully">> ELSE <<>>)
  \o (IF FGt(data.risk.drawdown_1y, Dec(35, -2)) THEN <<"High recent drawdown">> ELSE <<>>)
  \o (IF FGt(data.risk.beta, Dec(13, -1)) THEN <<"Elevated beta vs. market">> ELSE <<>>)

\* the for loop of lines 77-101 over the first n pairs; acc.error is the
\* exception that ended the loop, if any
RECURSIVE PlanLoop(_, _, _)
PlanLoop(scored, weights, n) ==
  IF n = 0
  THEN [suggestions |-> <<>>, expected_return |-> F0, volatility_proxy |-> F0,
        sector_totals |-> <<>>, error |-> None]
  ELSE LET acc == PlanLoop(scored, weights, n - 1)
           score == scored[n].score
           data == scored[n].data
           weight == weights[n]
           sector == SectorName(data)
           sector_name == IF TruthyStr(sector.value) THEN sector.value ELSE "Unclassified"
           before == IF sector_name \in DOMAIN acc.sector_totals
                     THEN acc.sector_totals[sector_name] ELSE F0
       IN  IF acc.error # None THEN acc
           ELSE IF sector = Raised("AttributeError") THEN [acc EXCEPT !.error = sector]
           ELSE [suggestions |->
                   Append(acc.suggestions,
                          [ticker |-> score.ticker, name |-> score.name, weight |-> weight,
                           composite |-> composite(score), notes |-> PositionNotes(data)]),
                 expected_return |->
                   FAdd(acc.expected_return, FMul(weight, FAdd(score.growth, score.catalysts))),
                 volatility_proxy |->
                   FAdd(acc.volatility_proxy, FMul(weight, data.risk.volatility_3y)),
                 sector_totals |->
                   [k \in (DOMAIN acc.sector_totals) \cup {sector_name} |->
                      IF k = sector_name THEN FAdd(before, weight) ELSE acc.sector_totals[k]],
                 error |-> None]

\* one call of the closure `run`, the k-th of the three.  The scenario runs
\* share one generator seeded with 42; the draws themselves are numpy's and
\* are not modelled: a result is identified by the seed, the position of its
\* draws in the stream and its parameters.
run(label, k, return_shift, vol_multiplier, factor_returns, volatilities, weights) ==
  [name |-> label, seed |-> 42, first_draw |-> k * 2000 * Len(weights),
   mean |-> [i \in 1..Len(factor_returns) |-> FMul(factor_returns[i], return_shift)],
   sigma |-> [i \in 1..Len(volatilities) |-> FMul(volatilities[i], vol_multiplier)],
   weights |-> weights]

\* lines 145-169, for the arrays of lines 124-125
Scenarios(factor_returns, volatilities, weights) ==
  <<run("Base case", 0, F1, F1, factor_returns, volatilities, weights),
    run("Growth slowdown", 1, Dec(6, -1), Dec(12, -1), factor_returns, volatilities, weights),
    run("Hyper-growth", 2, Dec(14, -1), Dec(9, -1), factor_returns, volatilities, weights)>>

_simulate_scenarios(scored, weights) ==
  IF scored = <<>> THEN <<>>
  ELSE Scenarios([i \in 1..Len(scored) |->
                    FMax(FAdd(scored[i].score.growth, scored[i].score.catalysts), F0)],
                 [i \in 1..Len(scored) |-> FMax(scored[i].data.risk.volatility_3y, Dec(5, -2))],
                 weights)

\* lines 66-71: the weights over their total, or equal weights when the
\* total is not positive
NormalizedWeights(raw_weights, total) ==
  IF FLe(total, F0)
  THEN [i \in 1..Len(raw_weights) |-> FDiv(F1, FromInt(Len(raw_weights)))]
  ELSE [i \in 1..Len(raw_weights) |-> FDiv(raw_weights[i], total)]

\* lines 73-114, once the loop has run
PlanResult(loop, scored, normalized_weights) ==
  IF loop.error # None THEN [error |-> loop.error, plan |-> None]
  ELSE [error |-> None,
        plan |-> [suggestions |-> loop.suggestions,
                  expected_return |-> loop.expected_return,
                  volatility_proxy |-> loop.volatility_proxy,
                  diversification_index |->
                    FSub(F1, FSum([i \in 1..Len(normalized_weights) |->
                                     FMul(normalized_weights[i], normalized_weights[i])])),
                  sector_allocations |-> loop.sector_totals,
                  scenarios |-> _simulate_scenarios(scored, normalized_weights)]]

\* lines 73-114, for the weights of line 71
PlanFor(scored, normalized_weights) ==
  PlanResult(PlanLoop(scored, normalized_weights, Len(scored)), scored, normalized_weights)

\* lines 66-114, for the raw weights of line 65
PlanFrom(scored, raw_weights) ==
  PlanFor(scored, NormalizedWeights(raw_weights, FSum(raw_weights)))

\* lines 65-114, for the joined list `scored`
PlanBody(scored) ==
  PlanFrom(scored,
           [i \in 1..Len(scored) |-> FMax(_raw_weight(scored[i].score, scored[i].data), F0)])

\* line 54: the scores whose ticker is a key of `indicators`, in input order
Scored(scores, indicators) ==
  LET kept == SelectSeq(scores, LAMBDA s : s.ticker \in DOMAIN indicators)
  IN  [i \in 1..Len(kept) |-> [score |-> kept[i], data |-> indicators[kept[i].ticker]]]

EmptyPlan ==
  [suggestions |-> <<>>, expected_return |-> F0, volatility_proxy |-> F0,
   diversification_index |-> F0, sector_allocations |-> <<>>, scenarios |-> <<>>]

\* build_portfolio_plan without the early return of lines 55-63
build_portfolio_plan_unguarded(scores, indicators) == PlanBody(Scored(scores, indicators))

\* the call's outcome: the returned plan, or the exception it raised
build_portfolio_plan(scores, indicators) ==
  IF Scored(scores, indicators) = <<>> THEN [error |-> None, plan |-> EmptyPlan]
  ELSE PlanBody(Scored(scores, indicators))

(***************************************************************************)
(* app/core/backtesting.py                                                 *)
(* A price payload is a record holding the keys of the dict.  A candle is  *)
(* a record holding the keys it carries, the candles of one payload        *)
(* carrying the same keys; `date` is the day number of the ISO date and    *)
(* `close` a positive price.  A series is [dated, index, values]: `dated`  *)
(* tells a DatetimeIndex from the RangeIndex 0..n-1 of a frame without a   *)
(* date column.                                                            *)
(***************************************************************************)
\* a frame left in payload order
sort_values_unsorted(candles) == candles

\* line 24: df.sort_values("date"); rows of equal date keep their payload
\* order (numpy sorts fewer than 17 keys by insertion)
sort_values(candles) ==
  [k \in 1..Len(candles) |->
     candles[CHOOSE i \in 1..Len(candles) :
               Cardinality({j \in 1..Len(candles) :
                              \/ candles[j].date < candles[i].date
                              \/ candles[j].date = candles[i].date /\ j < i}) = k - 1]]

\* lines 22-26 for the frame of line 21: the sorted frame when it has a date
\* column, KeyError when it has no close column
SeriesOf(df, columns) ==
  IF "close" \notin columns THEN Raised("KeyError")
  ELSE [dated |-> "date" \in columns,
        index |-> [i \in 1..Len(df) |-> IF "date" \in columns THEN df[i].date ELSE i - 1],
        values |-> [i \in 1..Len(df) |-> df[i].close]]

\* the series, or the exception raised
_prepare_series(price_payload) ==
  IF "candles" \notin DOMAIN price_payload \/ price_payload.candles = <<>>
  THEN Raised("ValueError")
  ELSE IF \E i \in 1..Len(price_payload.candles) : "date" \in DOMAIN price_payload.candles[i]
  THEN SeriesOf(sort_values(price_payload.candles),
                UNION {DOMAIN price_payload.candles[i] : i \in 1..Len(price_payload.candles)})
  ELSE SeriesOf(price_payload.candles,
                UNION {DOMAIN price_payload.candles[i] : i \in 1..Len(price_payload.candles)})

\* 1.0000000000000002, the float that follows 1.0
NextAfterOne == [sgn |-> 1, man |-> <<1, 0, 0, 128>>, exp |-> -52]

\* `x ** y - 1` of line 35.  The power is the C library's pow, which is
\* accurate to well under one unit in the last place: pow(1.0, y) is 1.0 for
\* every y, and pow(1.0000000000000002, y) with 0 < y <= 1/4 lies within a
\* quarter of a unit of 1.0 and is returned as 1.0.  Any other power is
\* identified by its operands.
PowerMinusOne(x, y) ==
  IF x = F1 THEN F0
  ELSE IF x = NextAfterOne /\ FGt(y, F0) /\ FLe(y, Dec(25, -2)) THEN F0
  ELSE [base |-> x, exponent |-> y, minus |-> F1]

\* the literals 365.25 and 1 / 12 of line 34
DaysPerYear == Dec(36525, -2)

\* a floor of one day instead of one month
MinYearsOneDay == FDiv(F1, Dec(36525, -2))

MinYears == FDiv(F1, FromInt(12))

\* lines 32-35 (a prepared series is never empty): `years` of line 34, then
\* the expression of line 35.  The difference of two labels of a RangeIndex
\* is an integer, which has no attribute `days`.
_calculate_cagr(series) ==
  IF ~series.dated THEN Raised("AttributeError")
  ELSE CHOOSE cagr \in
         {PowerMinusOne(FDiv(series.values[Len(series.values)], series.values[1]),
                        FDiv(F1, years)) :
            years \in {FMax(FDiv(FromInt(series.index[Len(series.index)] - series.index[1]),
                                 DaysPerYear),
                            MinYears)}} : TRUE

\* the first value instead of the least one
SeriesFirst(values) == values[1]

\* Series.min
SeriesMin(values) ==
  values[CHOOSE i \in 1..Len(values) : \A j \in 1..Len(values) : FLe(values[i], values[j])]

\* lines 41-43 (a prepared series is never empty): each value over the
\* greatest value up to it (Series.cummax), minus 1; then the least
_calculate_max_drawdown(series) ==
  SeriesMin([i \in 1..Len(series.values) |->
               FSub(FDiv(series.values[i],
                         series.values[CHOOSE j \in 1..i :
                                         \A k \in 1..i :
                                           FGe(series.values[j], series.values[k])]),
                    F1)])

\* lines 48-51 with the quotient of line 48 left as it is, nothing subtracted
BacktestOfGross(ticker, series) ==
  IF series \in {Raised("ValueError"), Raised("KeyError")}
  THEN [error |-> series, result |-> None]
  ELSE IF ~series.dated THEN [error |-> _calculate_cagr(series), result |-> None]
  ELSE [error |-> None,
        result |-> [ticker |-> ticker,
                    cumulative_return |->
                      IF Len(series.values) > 1
                      THEN FDiv(series.values[Len(series.values)], series.values[1])
                      ELSE F0,
                    cagr |-> _calculate_cagr(series),
                    max_drawdown |-> _calculate_max_drawdown(series)]]

\* lines 48-51 for the series of line 47; the call's outcome is the result
\* returned or the exception raised
BacktestOf(ticker, series) ==
  IF series \in {Raised("ValueError"), Raised("KeyError")}
  THEN [error |-> series, result |-> None]
  ELSE IF ~series.dated THEN [error |-> _calculate_cagr(series), result |-> None]
  ELSE [error |-> None,
        result |-> [ticker |-> ticker,
                    cumulative_return |->
                      IF Len(series.values) > 1
                      THEN FSub(FDiv(series.values[Len(series.values)], series.values[1]), F1)
                      ELSE F0,
                    cagr |-> _calculate_cagr(series),
                    max_drawdown |-> _calculate_max_drawdown(series)]]

\* run_backtest with a validation that raises nothing
run_backtest_zeroes(ticker, price_payload) ==
  IF _prepare_series(price_payload) = Raised("ValueError")
  THEN [error |-> None,
        result |-> [ticker |-> ticker, cumulative_return |-> F0, cagr |-> F0,
                    max_drawdown |-> F0]]
  ELSE CHOOSE outcome \in
         {BacktestOf(ticker, series) : series \in {_prepare_series(price_payload)}} : TRUE

\* line 47, then lines 48-51
run_backtest(ticker, price_payload) ==
  CHOOSE outcome \in
    {BacktestOf(ticker, series) : series \in {_prepare_series(price_payload)}} : TRUE

\* lines 57-60, one iteration: `results` after it, or the exception that
\* leaves the loop
BacktestStep(acc, outcome) ==
  IF acc.error # None THEN acc
  ELSE IF outcome.error = None
  THEN [error |-> None, results |-> Append(acc.results, outcome.result)]
  ELSE IF outcome.error = Raised("ValueError") THEN acc
  ELSE [error |-> outcome.error, results |-> None]

\* the loop of lines 56-60 over the first n items of the dict
RECURSIVE BacktestLoop(_, _)
BacktestLoop(items, n) ==
  IF n = 0 THEN [error |-> None, results |-> <<>>]
  ELSE CHOOSE after \in
         {BacktestStep(acc, outcome) :
            acc \in {BacktestLoop(items, n - 1)},
            outcome \in {run_backtest(items[n].ticker, items[n].payload)}} : TRUE

\* price_payloads.items() is the sequence of the dict's items
run_backtests(price_payloads) == BacktestLoop(price_payloads, Len(price_payloads))

(***************************************************************************)
(* app/core/tuning.py                                                      *)
(* Series.corr is pandas' Pearson correlation.  Its value for each factor  *)
(* column against the cagr column is an argument of the model, corr, whose *)
(* entry is NaN where pandas finds the correlation undefined.              *)
(***************************************************************************)
NaN == [nan |-> TRUE]

\* line 50: the rows that one score contributes to the inner join, one for
\* each result of its ticker
MergeRows(score, tests_list) ==
  LET matching == SelectSeq(tests_list, LAMBDA result : result.ticker = score.ticker)
  IN  [j \in 1..Len(matching) |->
         [ticker |-> score.ticker, growth |-> score.growth, quality |-> score.quality,
          catalysts |-> score.catalysts, valuation |-> score.valuation, risk |-> score.risk,
          cagr |-> matching[j].cagr]]

RECURSIVE MergeTo(_, _, _)
MergeTo(scores_list, tests_list, n) ==
  IF n = 0 THEN <<>>
  ELSE MergeTo(scores_list, tests_list, n - 1) \o MergeRows(scores_list[n], tests_list)

\* score_df.merge(backtest_df, on="ticker", how="inner")
merge(scores_list, tests_list) == MergeTo(scores_list, tests_list, Len(scores_list))

FAbs(x) == [x EXCEPT !.sgn = 1]

\* the first row's |cagr| instead of the sum
AbsFirst(merged) == IF merged[1].cagr = NaN THEN F0 ELSE FAbs(merged[1].cagr)

\* merged["cagr"].abs().sum(): Series.sum leaves NaN entries out (skipna)
\* and is 0.0 when nothing is left
AbsSum(merged) ==
  FSum([i \in 1..Len(SelectSeq(merged, LAMBDA row : row.cagr # NaN)) |->
          FAbs(SelectSeq(merged, LAMBDA row : row.cagr # NaN)[i].cagr)])

\* lines 57-60: correlations[factor]
Correlations(corr) ==
  [factor \in {"growth", "quality", "catalysts", "valuation", "risk"} |->
     IF corr[factor] = NaN THEN F0 ELSE corr[factor]]

\* the correlations themselves as weights
WeightsUnclipped(corr) == Correlations(corr)

\* line 61: weights[factor]
Weights(corr) ==
  [factor \in {"growth", "quality", "catalysts", "valuation", "risk"} |->
     FMax(Correlations(corr)[factor], F0)]

\* lines 63-71
WeightOptimization(corr) ==
  [recommended |-> normalized(WC(Weights(corr).growth, Weights(corr).quality,
                                  Weights(corr).catalysts, Weights(corr).valuation,
                                  Weights(corr).risk)),
   factor_correlations |-> Correlations(corr)]

\* lines 51-71 for the frame of line 50
RecommendFrom(merged, corr) ==
  IF merged = <<>> THEN None
  ELSE IF AbsSum(merged) = F0 THEN None
  ELSE WeightOptimization(corr)

\* recommend_weights(scores, backtests), corr[factor] being the value of
\* merged[factor].corr(merged["cagr"])
recommend_weights(scores, backtests, corr) ==
  IF scores = <<>> \/ backtests = <<>> THEN None
  ELSE RecommendFrom(merge(scores, backtests), corr)

(***************************************************************************)
(* app/data/ingestion.py: ProviderHealthMonitor                            *)
(* A str is the record of its text, so that it can be told from None.      *)
(* time.time() is the float of a clock that the caller reads.              *)
(***************************************************************************)
Str(text) == [str |-> text]

\* ProviderHealthStatus(name=name)
ProviderHealthStatus(name) ==
  [name |-> name, last_success_at |-> None, last_error |-> None, last_error_at |-> None]

\* ProviderHealthMonitor(provider_names)._statuses
ProviderHealthMonitor(provider_names) ==
  [name \in provider_names |-> ProviderHealthStatus(name)]

\* self._statuses.setdefault(name, ProviderHealthStatus(name=name)): the dict
\* after the call
setdefault(statuses, name) ==
  [n \in DOMAIN statuses \cup {name} |->
     IF n \in DOMAIN statuses THEN statuses[n] ELSE ProviderHealthStatus(name)]

\* record_success that keeps the last error
record_success_keeps_error(statuses, name, time) ==
  [setdefault(statuses, name) EXCEPT ![name].last_success_at = time]

\* record_success(name), time.time() returning time: the dict after the call
record_success(statuses, name, time) ==
  [setdefault(statuses, name) EXCEPT ![name].last_success_at = time,
                                     ![name].last_error = None,
                                     ![name].last_error_at = None]

\* record_failure(name, message), time.time() returning time
record_failure(statuses, name, message, time) ==
  [setdefault(statuses, name) EXCEPT ![name].last_error = message,
                                     ![name].last_error_at = time]

(***************************************************************************)
(* app/data/providers.py: FailoverProvider                                 *)
(* A child provider is the record of what its methods do for each ticker:  *)
(* the response returned or the exception raised (an Exception subclass).  *)
(* A call works on [statuses, time, attempts, records, result]: the        *)
(* monitor's dict, the clock, the calls made on children, the calls made   *)
(* on the monitor, and what the call returns or raises.                    *)
(***************************************************************************)
IsException(x) == "raised" \in DOMAIN x

\* lines 111-113: the pairs whose provider is not None
Children(pairs) == SelectSeq(pairs, LAMBDA pair : pair.provider # None)

\* lines 129-130 and 132-133 with a monitor that is told of failures only
RecordedFailuresOnly(self, child, result, st) ==
  IF self._monitor = None \/ ~IsException(result) THEN st
  ELSE [st EXCEPT !.statuses = record_failure(st.statuses, self.name \o ":" \o child.label,
                                              Str(result.raised), FromInt(st.time)),
                  !.time = st.time + 1,
                  !.records = Append(st.records, [call |-> "record_failure",
                                                  name |-> self.name \o ":" \o child.label])]

\* lines 129-130 and 132-133: the monitor, when one is attached, is told what
\* the child did; str(exc) is the text of the exception
Recorded(self, child, result, st) ==
  IF self._monitor = None THEN st
  ELSE IF IsException(result)
  THEN [st EXCEPT !.statuses = record_failure(st.statuses, self.name \o ":" \o child.label,
                                              Str(result.raised), FromInt(st.time)),
                  !.time = st.time + 1,
                  !.records = Append(st.records, [call |-> "record_failure",
                                                  name |-> self.name \o ":" \o child.label])]
  ELSE [st EXCEPT !.statuses = record_success(st.statuses, self.name \o ":" \o child.label,
                                              FromInt(st.time)),
                  !.time = st.time + 1,
                  !.records = Append(st.records, [call |-> "record_success",
                                                  name |-> self.name \o ":" \o child.label])]

\* lines 124-137 from child i on: the child is called, the monitor told, and
\* the loop goes on after an exception
RECURSIVE FailoverFrom(_, _, _, _, _)
FailoverFrom(self, method, ticker, i, st) ==
  IF i > Len(self.providers) THEN [st EXCEPT !.result = Raised("DataProviderError")]
  ELSE CHOOSE final \in
         {IF IsException(result)
          THEN FailoverFrom(self, method, ticker, i + 1, after)
          ELSE [after EXCEPT !.result = result] :
            result \in {self.providers[i].provider[method][ticker]},
            after \in {Recorded(self, self.providers[i], self.providers[i].provider[method][ticker],
                                 [st EXCEPT !.attempts =
                                    Append(st.attempts, [method |-> method, child |-> i])])}} : TRUE

\* FailoverProvider.fundamentals(ticker)
fundamentals(self, ticker, st) == FailoverFrom(self, "fundamentals", ticker, 1, st)

\* FailoverProvider.price_series(ticker)
price_series(self, ticker, st) == FailoverFrom(self, "price_series", ticker, 1, st)

(***************************************************************************)
(* app/data/cache.py, app/core/pipeline.py, app/data/ingestion.py:         *)
(* DataIngestionManager.get_company                                        *)
(* A JsonCache is a function from keys to None or [expired, data]; expired *)
(* stands for an entry older than ttl_seconds.  A call works on            *)
(* [indicator_cache, price_cache, statuses, time, records, attempts,       *)
(* result]: the two caches, the health monitor's dict, the clock, the      *)
(* calls made on the monitor, the calls made on providers, and what the    *)
(* call returns or raises.  CompanyIndicators is kept as the fundamentals' *)
(* source and the metadata the transformer was given.                      *)
(***************************************************************************)
\* cache.py 38-50: JsonCache.load
load(cache, key) ==
  IF cache[key] = None THEN None
  ELSE IF cache[key].expired THEN None
  ELSE cache[key].data

\* cache.py 52-55: JsonCache.save
save(cache, key, data) == [cache EXCEPT ![key] = [expired |-> FALSE, data |-> data]]

\* str.upper() on the tickers of the inputs
str_upper(ticker) == IF ticker = "cls" THEN "CLS" ELSE ticker

\* metrics.py 73-76: asdict(self)
indicators_to_dict(indicators) == [asdict |-> indicators]

\* metrics.py 78-90: CompanyIndicators.from_dict
from_dict(payload) == payload.asdict

\* health_monitor.record_success(name) / record_failure(name, message)
Notified(st, call, name, message) ==
  [st EXCEPT !.statuses = IF call = "record_failure"
                          THEN record_failure(st.statuses, name, message, FromInt(st.time))
                          ELSE record_success(st.statuses, name, FromInt(st.time)),
             !.time = st.time + 1,
             !.records = Append(st.records, [call |-> call, name |-> name])]

\* a call of method on the provider registered under key
Called(st, key, method, ticker) ==
  [st EXCEPT !.attempts = Append(st.attempts, [provider |-> key, method |-> method,
                                               ticker |-> ticker])]

\* pipeline.py 55-62: the metadata of a theme response; a response whose
\* sector is missing or empty and whose profile is None has no .get
ThemeMetadata(theme_response) ==
  IF ("sector" \notin DOMAIN theme_response \/ theme_response.sector = "")
     /\ "profile" \in DOMAIN theme_response /\ theme_response.profile = None
  THEN Raised("AttributeError")
  ELSE [themeAlignment |-> IF "themeAlignment" \in DOMAIN theme_response
                           THEN theme_response.themeAlignment ELSE F0,
        sector |-> IF "sector" \in DOMAIN theme_response /\ theme_response.sector # ""
                   THEN theme_response.sector
                   ELSE IF "profile" \in DOMAIN theme_response
                   THEN theme_response.profile.sector ELSE None]

\* pipeline.py 43-65: _aggregate_metadata; the pipeline's monitor, when it
\* has one, is the manager's health monitor
_aggregate_metadata(self, ticker, st) ==
  IF "themes" \notin DOMAIN self.providers THEN [st EXCEPT !.result = <<>>]
  ELSE CHOOSE final \in
    {IF IsException(theme_response)
     THEN [(IF self.monitor = None THEN called
            ELSE Notified(called, "record_failure", "themes", Str(theme_response.raised)))
           EXCEPT !.result = <<>>]
     ELSE IF IsException(ThemeMetadata(theme_response))
     THEN [called EXCEPT !.result = ThemeMetadata(theme_response)]
     ELSE [(IF self.monitor = None THEN called
            ELSE Notified(called, "record_success", "themes", None))
           EXCEPT !.result = ThemeMetadata(theme_response)] :
       theme_response \in {self.providers.themes.fundamentals[ticker]},
       called \in {Called(st, "themes", "fundamentals", ticker)}} : TRUE

\* pipeline.py 28-38: build_company
build_company(self, ticker, st) ==
  IF "primary" \notin DOMAIN self.providers THEN [st EXCEPT !.result = Raised("KeyError")]
  ELSE IF IsException(self.providers.primary.fundamentals[ticker])
  THEN [Called(st, "primary", "fundamentals", ticker)
        EXCEPT !.result = self.providers.primary.fundamentals[ticker]]
  ELSE CHOOSE final \in
    {IF IsException(aggregated.result) THEN aggregated
     ELSE [aggregated EXCEPT !.result =
             [ticker |-> ticker,
              source |-> self.providers.primary.fundamentals[ticker].source,
              metadata |-> aggregated.result]] :
       aggregated \in {_aggregate_metadata(self, ticker,
                                           Called(st, "primary", "fundamentals", ticker))}} : TRUE

\* fromtimestamp(ts, tz=utc).date().isoformat() for the first days of 1970
IsoDate(ts) == <<"1970-01-01", "1970-01-02", "1970-01-03">>[(ts \div 86400) + 1]

\* float(None) is a TypeError
BadClose(entries) ==
  \E i \in 1..Len(entries) : "close" \in DOMAIN entries[i] /\ entries[i].close = None

\* float(entry.get("close", 0.0))
CloseOf(entry) == IF "close" \in DOMAIN entry THEN entry.close ELSE F0

\* the candles of a list of entries dated by key
CandlesOf(entries, key) ==
  [i \in 1..Len(entries) |->
     [date |-> IF key \in DOMAIN entries[i] THEN entries[i][key] ELSE None,
      close |-> CloseOf(entries[i])]]

reversed(values) == [i \in 1..Len(values) |-> values[Len(values) + 1 - i]]

zip(xs, ys) ==
  [i \in 1..(IF Len(xs) < Len(ys) THEN Len(xs) ELSE Len(ys)) |-> <<xs[i], ys[i]>>]

SymbolOf(price_response) ==
  IF "symbol" \in DOMAIN price_response THEN price_response.symbol ELSE None

\* ingestion.py 176-201: _normalize_price_response; None has no "in"
_normalize_price_response(price_response) ==
  IF price_response = None THEN Raised("TypeError")
  ELSE IF "candles" \in DOMAIN price_response THEN price_response
  ELSE IF {"c", "t"} \subseteq DOMAIN price_response
  THEN [candles |-> [i \in 1..Len(zip(price_response.t, price_response.c)) |->
                       [date |-> IsoDate(zip(price_response.t, price_response.c)[i][1]),
                        close |-> zip(price_response.t, price_response.c)[i][2]]],
        symbol |-> SymbolOf(price_response)]
  ELSE IF "values" \in DOMAIN price_response
  THEN IF BadClose(price_response.values) THEN Raised("TypeError")
       ELSE [candles |-> CandlesOf(price_response.values, "datetime"),
             symbol |-> SymbolOf(price_response)]
  ELSE IF "historical" \in DOMAIN price_response
  THEN IF BadClose(price_response.historical) THEN Raised("TypeError")
       ELSE [candles |-> reversed(CandlesOf(price_response.historical, "date")),
             symbol |-> SymbolOf(price_response)]
  ELSE price_response

\* ingestion.py 117-119 with the exception passed on to the caller
PriceFetchRaised(st, exc) ==
  [Notified(st, "record_failure", "primary_prices", Str("price fetch failed"))
   EXCEPT !.result = exc]

\* ingestion.py 117-119: except Exception
PriceFetchFailed(st, exc) ==
  [Notified(st, "record_failure", "primary_prices", Str("price fetch failed"))
   EXCEPT !.result = None]

\* ingestion.py 108-125: the price history; result is price_history or an
\* exception
PriceHistory(self, ticker, force_refresh, st) ==
  IF ~force_refresh /\ load(st.price_cache, ticker) # None
  THEN [st EXCEPT !.result = load(st.price_cache, ticker)]
  ELSE IF "primary" \notin DOMAIN self.pipeline.providers THEN [st EXCEPT !.result = None]
  ELSE CHOOSE final \in
    {IF IsException(price_response) THEN PriceFetchFailed(called, price_response)
     ELSE IF IsException(_normalize_price_response(price_response))
     THEN PriceFetchFailed(called, _normalize_price_response(price_response))
     ELSE [Notified(called, "record_success", "primary_prices", None)
           EXCEPT !.result = _normalize_price_response(price_response),
                  !.price_cache = save(st.price_cache, ticker,
                                       _normalize_price_response(price_response))] :
       price_response \in {self.pipeline.providers.primary.price_series[ticker]},
       called \in {Called(st, "primary", "price_series", ticker)}} : TRUE

\* ingestion.py 96-106: the indicators; result is indicators or an exception
Indicators(self, ticker, force_refresh, st) ==
  IF ~force_refresh /\ load(st.indicator_cache, ticker) # None
  THEN [st EXCEPT !.result = from_dict(load(st.indicator_cache, ticker))]
  ELSE CHOOSE final \in
    {IF IsException(built.result)
     THEN Notified(built, "record_failure", "primary", Str(built.result.raised))
     ELSE [Notified(built, "record_success", "primary", None)
           EXCEPT !.indicator_cache = save(st.indicator_cache, ticker,
                                           indicators_to_dict(built.result))] :
       built \in {build_company(self.pipeline, ticker, st)}} : TRUE

\* ingestion.py 92-127: get_company(ticker, force_refresh=...)
get_company(self, ticker, force_refresh, st) ==
  CHOOSE final \in
    {IF IsException(found.result) THEN found
     ELSE CHOOSE priced \in
       {IF IsException(history.result) THEN history
        ELSE [history EXCEPT !.result = [ticker |-> str_upper(ticker),
                                         indicators |-> found.result,
                                         price_history |-> history.result]] :
          history \in {PriceHistory(self, str_upper(ticker), force_refresh, found)}} : TRUE :
       found \in {Indicators(self, str_upper(ticker), force_refresh, st)}} : TRUE

(***************************************************************************)
(* Inputs.  Values are written as the decimal literals a caller would pass. *)
(***************************************************************************)
\* numbers of pool entries used and lengths of lists
NumStepValues == 5

NumLevels == 3

NumWeightConfigs == 6

NumScoreVectors == 5

NumCompanies == 4

MaxCompanies == 3

MaxScores == 2

StepValues ==
  {Floats(<<<<0, 0>>, <<5, -1>>, <<1, 0>>, <<-1, 0>>, <<25, -2>>, <<3, 0>>, <<7, -1>>>>, 1)[i] :
     i \in 1..NumStepValues}

\* WeightConfig is a plain dataclass and WeightConfig.from_dict takes any
\* floats of a weights.json: zero, negative and large weights can all be held
WeightPool ==
  Floats(
    <<WC(<<32, -2>>, <<22, -2>>, <<18, -2>>, <<18, -2>>, <<10, -2>>),
      WC(<<0, 0>>, <<0, 0>>, <<0, 0>>, <<0, 0>>, <<0, 0>>),
      WC(<<1, 0>>, <<1, -1>>, <<25, -2>>, <<7, -1>>, <<1, -1>>),
      WC(<<2, 0>>, <<-1, 0>>, <<0, 0>>, <<0, 0>>, <<0, 0>>),
      WC(<<1, 0>>, <<0, 0>>, <<0, 0>>, <<0, 0>>, <<0, 0>>),
      WC(<<-1, 0>>, <<-1, 0>>, <<0, 0>>, <<0, 0>>, <<0, 0>>),
      WC(<<6, -1>>, <<6, -1>>, <<6, -1>>, <<6, -1>>, <<6, -1>>),
      WC(<<0, 0>>, <<0, 0>>, <<0, 0>>, <<0, 0>>, <<3, 0>>)>>, 2)

WeightConfigs == {WeightPool[i] : i \in 1..NumWeightConfigs}

\* factor scores in [0,1]
ScoreVectors ==
  Floats(
    <<WC(<<1, 0>>, <<1, 0>>, <<1, 0>>, <<1, 0>>, <<1, 0>>),
      WC(<<5, -1>>, <<5, -1>>, <<5, -1>>, <<5, -1>>, <<5, -1>>),
      WC(<<1, 0>>, <<0, 0>>, <<0, 0>>, <<0, 0>>, <<0, 0>>),
      WC(<<0, 0>>, <<0, 0>>, <<0, 0>>, <<0, 0>>, <<0, 0>>),
      WC(<<0, 0>>, <<1, 0>>, <<5, -1>>, <<25, -2>>, <<1, 0>>),
      WC(<<3, -1>>, <<7, -1>>, <<1, -1>>, <<9, -1>>, <<2, -1>>),
      WC(<<0, 0>>, <<0, 0>>, <<0, 0>>, <<0, 0>>, <<1, 0>>)>>, 2)

\* CompanyIndicators(ticker, name, growth, quality, catalysts, valuation, risk)
\* from a table of literals
Company(t) ==
  [f \in DOMAIN t |-> IF f \in {"ticker", "name"} THEN t[f] ELSE Floats(t[f], 1)]

\* CLS, SMCI and NVST hold the metrics that load_sample_companies of
\* app/data/sample_data.py builds from SAMPLE_FUNDAMENTALS; TWIN has the
\* metrics of CLS under another ticker; NEWCO holds the defaults that
\* IndicatorTransformer.build fills in for an empty payload.
CompanyTable ==
  <<[ticker |-> "CLS", name |-> "Celestica Inc.", 
     growth |->
       [revenue_cagr_3y |-> <<17, -2>>, revenue_acceleration |-> <<5, -2>>,
        ebit_margin_trend |-> <<4, -2>>, fcf_margin |-> <<8, -2>>, backlog_growth |-> <<32, -2>>],
     quality |->
       [roic |-> <<19, -2>>, roic_trend |-> <<5, -2>>, net_debt_to_ebitda |-> <<11, -1>>,
        interest_coverage |-> <<10, 0>>, asset_turnover_trend |-> <<8, -2>>],
     catalysts |->
       [theme_alignment |-> <<85, -2>>, earnings_revision_trend |-> <<18, -2>>,
        insider_activity_score |-> <<55, -2>>, strategic_investor_presence |-> <<3, -1>>],
     valuation |->
       [peg_ratio |-> <<9, -1>>, ev_to_ebitda_vs_peers |-> <<-15, -1>>,
        free_cash_flow_yield |-> <<5, -2>>, price_momentum |-> <<22, -2>>,
        consolidation_score |-> <<6, -1>>],
     risk |->
       [market_cap |-> <<42, 8>>,
        avg_daily_dollar_volume |-> <<45000000, 0>>, beta |-> <<11, -1>>,
        volatility_3y |-> <<32, -2>>, drawdown_1y |-> <<2, -1>>]],
    [ticker |-> "NEWCO", name |-> "NEWCO",
     growth |-> [revenue_cagr_3y |-> <<0, 0>>, revenue_acceleration |-> <<0, 0>>, ebit_margin_trend |-> <<0, 0>>,
                 fcf_margin |-> <<0, 0>>, backlog_growth |-> <<>>],
     quality |-> [roic |-> <<0, 0>>, roic_trend |-> <<0, 0>>, net_debt_to_ebitda |-> <<3, 0>>,
                  interest_coverage |-> <<0, 0>>, asset_turnover_trend |-> <<0, 0>>],
     catalysts |-> [theme_alignment |-> <<0, 0>>, earnings_revision_trend |-> <<0, 0>>,
                    insider_activity_score |-> <<0, 0>>, strategic_investor_presence |-> <<>>],
     valuation |-> [peg_ratio |-> <<2, 0>>, ev_to_ebitda_vs_peers |-> <<0, 0>>,
                    free_cash_flow_yield |-> <<0, 0>>, price_momentum |-> <<0, 0>>,
                    consolidation_score |-> <<0, 0>>],
     risk |-> [market_cap |-> <<0, 0>>, avg_daily_dollar_volume |-> <<0, 0>>, beta |-> <<1, 0>>,
               volatility_3y |-> <<3, -1>>, drawdown_1y |-> <<2, -1>>]],
    [ticker |-> "TWIN", name |-> "Twin Corp.", 
     growth |->
       [revenue_cagr_3y |-> <<17, -2>>, revenue_acceleration |-> <<5, -2>>,
        ebit_margin_trend |-> <<4, -2>>, fcf_margin |-> <<8, -2>>, backlog_growth |-> <<32, -2>>],
     quality |->
       [roic |-> <<19, -2>>, roic_trend |-> <<5, -2>>, net_debt_to_ebitda |-> <<11, -1>>,
        interest_coverage |-> <<10, 0>>, asset_turnover_trend |-> <<8, -2>>],
     catalysts |->
       [theme_alignment |-> <<85, -2>>, earnings_revision_trend |-> <<18, -2>>,
        insider_activity_score |-> <<55, -2>>, strategic_investor_presence |-> <<3, -1>>],
     valuation |->
       [peg_ratio |-> <<9, -1>>, ev_to_ebitda_vs_peers |-> <<-15, -1>>,
        free_cash_flow_yield |-> <<5, -2>>, price_momentum |-> <<22, -2>>,
        consolidation_score |-> <<6, -1>>],
     risk |->
       [market_cap |-> <<42, 8>>,
        avg_daily_dollar_volume |-> <<45000000, 0>>, beta |-> <<11, -1>>,
        volatility_3y |-> <<32, -2>>, drawdown_1y |-> <<2, -1>>]],
    [ticker |-> "SMCI", name |-> "Super Micro Computer",
     growth |-> [revenue_cagr_3y |-> <<4, -1>>, revenue_acceleration |-> <<2, -1>>,
                 ebit_margin_trend |-> <<7, -2>>, fcf_margin |-> <<9, -2>>,
                 backlog_growth |-> <<45, -2>>],
     quality |-> [roic |-> <<23, -2>>, roic_trend |-> <<7, -2>>,
                  net_debt_to_ebitda |-> <<-5, -1>>, interest_coverage |-> <<20, 0>>,
                  asset_turnover_trend |-> <<12, -2>>],
     catalysts |-> [theme_alignment |-> <<95, -2>>, earnings_revision_trend |-> <<25, -2>>,
                    insider_activity_score |-> <<4, -1>>,
                    strategic_investor_presence |-> <<2, -1>>],
     valuation |-> [peg_ratio |-> <<14, -1>>, ev_to_ebitda_vs_peers |-> <<1, 0>>,
                    free_cash_flow_yield |-> <<3, -2>>, price_momentum |-> <<3, -1>>,
                    consolidation_score |-> <<35, -2>>],
     risk |-> [market_cap |-> <<25, 9>>,
               avg_daily_dollar_volume |-> <<1500000000, 0>>, beta |-> <<145, -2>>,
               volatility_3y |-> <<55, -2>>, drawdown_1y |-> <<4, -1>>]],
    [ticker |-> "NVST", name |-> "Envista Holdings",
     growth |-> [revenue_cagr_3y |-> <<9, -2>>, revenue_acceleration |-> <<3, -2>>,
                 ebit_margin_trend |-> <<2, -2>>, fcf_margin |-> <<7, -2>>,
                 backlog_growth |-> <<18, -2>>],
     quality |-> [roic |-> <<14, -2>>, roic_trend |-> <<3, -2>>,
                  net_debt_to_ebitda |-> <<18, -1>>, interest_coverage |-> <<8, 0>>,
                  asset_turnover_trend |-> <<5, -2>>],
     catalysts |-> [theme_alignment |-> <<7, -1>>, earnings_revision_trend |-> <<1, -1>>,
                    insider_activity_score |-> <<35, -2>>,
                    strategic_investor_presence |-> <<15, -2>>],
     valuation |-> [peg_ratio |-> <<11, -1>>, ev_to_ebitda_vs_peers |-> <<-8, -1>>,
                    free_cash_flow_yield |-> <<45, -3>>, price_momentum |-> <<15, -2>>,
                    consolidation_score |-> <<5, -1>>],
     risk |-> [market_cap |-> <<65, 8>>,
               avg_daily_dollar_volume |-> <<22000000, 0>>, beta |-> <<1, 0>>,
               volatility_3y |-> <<28, -2>>, drawdown_1y |-> <<25, -2>>]]>>

IndicatorPool == [i \in 1..Len(CompanyTable) |-> Company(CompanyTable[i])]


\* ScoreBreakdown(ticker, name, growth, quality, catalysts, valuation, risk, weights)
ScoreBreakdown(ticker, name, v, weights) ==
  [ticker |-> ticker, name |-> name, growth |-> v.growth, quality |-> v.quality,
   catalysts |-> v.catalysts, valuation |-> v.valuation, risk |-> v.risk, weights |-> weights]

\* price payloads: numbers of pool entries used and of items in a batch
NumPayloads == 10

MaxBatch == 2

\* a candle list from a table of <<day number, close>>
Candles(t) == [i \in 1..Len(t) |-> [date |-> t[i][1], close |-> Dec(t[i][2], 0)]]

\* one candle; a halving that recovers, out of order; a payload without
\* candles; an empty candle list; candles without close; candles without
\* date; a flat series; a rising series of 20 days, latest first; a series
\* of four years that ends one unit in the last place above its start; a
\* falling series of four years, out of order; candles sharing a date
PayloadPool ==
  <<[symbol |-> "CLS", candles |-> Candles(<<<<0, 100>>>>)],
    [symbol |-> "CLS", candles |-> Candles(<<<<731, 100>>, <<0, 100>>, <<200, 50>>>>)],
    [symbol |-> "CLS", interval |-> "1day"],
    [symbol |-> "CLS", candles |-> <<>>],
    [symbol |-> "CLS", candles |-> <<[date |-> 0], [date |-> 1]>>],
    [symbol |-> "CLS", candles |-> <<[close |-> Dec(100, 0)], [close |-> Dec(110, 0)]>>],
    [symbol |-> "CLS", candles |-> Candles(<<<<0, 100>>, <<10, 100>>, <<400, 100>>>>)],
    [symbol |-> "CLS", candles |-> Candles(<<<<20, 121>>, <<15, 110>>, <<0, 100>>>>)],
    [symbol |-> "CLS", candles |-> <<[date |-> 0, close |-> F1],
                                     [date |-> 1461, close |-> NextAfterOne]>>],
    [symbol |-> "CLS", candles |-> Candles(<<<<366, 90>>, <<1461, 60>>, <<0, 120>>>>)],
    [symbol |-> "CLS", candles |-> Candles(<<<<0, 100>>, <<0, 80>>, <<5, 90>>>>)]>>

\* weight tuning: numbers of pool entries used and length of the lists
NumTuningScores == 2

NumTuningBacktests == 4

NumCorrelations == 4

MaxTuning == 2

\* BacktestResult(ticker, cumulative_return, cagr, max_drawdown)
BacktestResult(ticker, t) ==
  [ticker |-> ticker, cumulative_return |-> Dec(t[1][1], t[1][2]), cagr |-> Dec(t[2][1], t[2][2]),
   max_drawdown |-> Dec(t[3][1], t[3][2])]

\* a gain; a flat result; a ticker that no score carries; the result of
\* run_backtest for closes of 0.0, whose quotients are NaN; a loss
BacktestPool ==
  <<BacktestResult("CLS", <<<<40, -2>>, <<12, -2>>, <<-10, -2>>>>),
    BacktestResult("NEWCO", <<<<0, 0>>, <<0, 0>>, <<-20, -2>>>>),
    BacktestResult("ARM", <<<<90, -2>>, <<30, -2>>, <<-5, -2>>>>),
    [ticker |-> "CLS", cumulative_return |-> NaN, cagr |-> NaN, max_drawdown |-> NaN],
    BacktestResult("NEWCO", <<<<-15, -2>>, <<-5, -2>>, <<-30, -2>>>>)>>

\* values of Series.corr for the five factors: undefined throughout; one
\* factor at -1 and one undefined among positive ones; none positive; all
\* positive; a single positive one
CorrelationPool ==
  <<[growth |-> NaN, quality |-> NaN, catalysts |-> NaN, valuation |-> NaN, risk |-> NaN],
    [growth |-> Dec(-1, 0), quality |-> Dec(5, -1), catalysts |-> Dec(25, -2),
     valuation |-> NaN, risk |-> F0],
    [growth |-> Dec(-1, 0), quality |-> Dec(-5, -1), catalysts |-> F0,
     valuation |-> NaN, risk |-> Dec(-25, -2)],
    [growth |-> F1, quality |-> Dec(1, -1), catalysts |-> Dec(25, -2),
     valuation |-> Dec(7, -1), risk |-> Dec(1, -1)],
    [growth |-> F0, quality |-> F0, catalysts |-> Dec(3, -1), valuation |-> Dec(-2, -1),
     risk |-> NaN]>>

\* provider health: numbers of names and messages used, number of calls
NumNames == 2

NumMessages == 2

MaxRecords == 3

ProviderNames == {<<"primary", "primary_prices", "themes">>[i] : i \in 1..NumNames}

Messages == {Str(<<"timeout", "", "HTTP 500">>[i]) : i \in 1..NumMessages}

\* failover chains: number of pool entries used and length of a chain
NumProviders == 4

MaxChain == 3

Tickers == {"CLS", "NEWCO"}

\* a provider that does the same for every ticker
Always(fundamentals_result, price_result) ==
  [fundamentals |-> [t \in Tickers |-> fundamentals_result],
   price_series |-> [t \in Tickers |-> price_result]]

\* (label, provider) pairs: a provider that always raises; one that knows one
\* ticker and has prices for the other; a pair without provider; a provider
\* that always answers; a second provider under the label of the first
ProviderPool ==
  <<[label |-> "finnhub",
     provider |-> Always(Raised("DataProviderError"), Raised("DataProviderError"))],
    [label |-> "twelvedata",
     provider |-> [fundamentals |-> [t \in Tickers |->
                                       IF t = "CLS" THEN [symbol |-> t, source |-> "twelvedata"]
                                       ELSE Raised("KeyError")],
                   price_series |-> [t \in Tickers |->
                                       IF t = "CLS" THEN Raised("ConnectionError")
                                       ELSE [symbol |-> t, values |-> <<>>]]]],
    [label |-> "backup", provider |-> None],
    [label |-> "fmp",
     provider |-> Always([source |-> "fmp"], [source |-> "fmp", historical |-> <<>>])],
    [label |-> "finnhub",
     provider |-> Always([source |-> "finnhub"], [source |-> "finnhub", candles |-> <<>>])]>>

\* ingestion: number of pool entries used
NumFundamentals == 2

NumPrices == 6

NumThemes == 3

\* what provider.fundamentals does
FundamentalsPool ==
  <<[source |-> "finnhub"], Raised("DataProviderError"), Raised("KeyError")>>

\* what provider.price_series does: raises; candles already; a close that is
\* None; an FMP series, latest first; no response; Finnhub arrays of unequal
\* length; a Twelve Data series; a dict of another shape
PricePool ==
  <<Raised("DataProviderError"),
    [candles |-> <<[date |-> "2024-01-02", close |-> F1]>>],
    [values |-> <<[datetime |-> "2024-01-02", close |-> F1],
                  [datetime |-> "2024-01-03", close |-> None]>>, symbol |-> "CLS"],
    [historical |-> <<[date |-> "2024-01-03", close |-> Dec(2, 0)],
                      [date |-> "2024-01-02", close |-> F1]>>, symbol |-> "CLS"],
    None,
    [c |-> <<F1, Dec(2, 0)>>, t |-> <<0, 86400, 172800>>, s |-> "ok"],
    [values |-> <<[datetime |-> "2024-01-02"]>>],
    [status |-> "error"]>>

\* what the themes provider's fundamentals does
ThemePool ==
  <<[themeAlignment |-> Dec(8, -1), sector |-> "Technology"],
    Raised("DataProviderError"),
    [themeAlignment |-> Dec(5, -1), profile |-> None],
    [sector |-> "", profile |-> [sector |-> "Industrials"]]>>

\* the tickers a caller passes
Symbols == {"CLS", "cls", "NEWCO"}

\* the states of a cache file: none, one past its ttl, a fresh one
CacheEntries(data) ==
  {None, [expired |-> TRUE, data |-> data], [expired |-> FALSE, data |-> data]}

\* PipelineConfig.providers: with or without "primary" and "themes"
ProviderDicts ==
  {[k \in ks |-> IF k = "primary" THEN Always(f, p) ELSE Always(th, Raised("DataProviderError"))] :
     ks \in SUBSET {"primary", "themes"},
     f \in {FundamentalsPool[i] : i \in 1..NumFundamentals},
     p \in {PricePool[i] : i \in 1..NumPrices},
     th \in {ThemePool[i] : i \in 1..NumThemes}}

\* all sequences over S of length at most n
RECURSIVE SeqsUpTo(_, _)
SeqsUpTo(S, n) ==
  IF n = 0 THEN {<<>>}
  ELSE LET shorter == SeqsUpTo(S, n - 1)
       IN  shorter \cup {Append(q, x) : q \in shorter, x \in S}

Distinct(q) == \A i, j \in 1..Len(q) : i # j => q[i] # q[j]

(***************************************************************************)
(* Sub-records for the factor scorers: every field at one level of its     *)
(* (lower, upper) bounds, one field at another level or missing.           *)
(***************************************************************************)
Factors == {"growth", "quality", "catalysts", "valuation", "risk"}

FactorFields ==
  [growth |-> <<"revenue_cagr_3y", "revenue_acceleration", "ebit_margin_trend", "fcf_margin",
                "backlog_growth">>,
   quality |-> <<"roic", "roic_trend", "net_debt_to_ebitda", "interest_coverage",
                 "asset_turnover_trend">>,
   catalysts |-> <<"theme_alignment", "earnings_revision_trend", "insider_activity_score",
                   "strategic_investor_presence">>,
   valuation |-> <<"peg_ratio", "ev_to_ebitda_vs_peers", "free_cash_flow_yield",
                   "price_momentum", "consolidation_score">>,
   risk |-> <<"market_cap", "avg_daily_dollar_volume", "beta", "volatility_3y", "drawdown_1y">>]

\* the fields declared Optional[float]
OptionalFields == {"backlog_growth", "strategic_investor_presence"}

\* (lower, upper) of the component computed from the j-th field
FieldBounds(factor, j) ==
  CASE factor = "growth" -> GrowthBounds[GrowthKeys[j]]
    [] factor = "quality" -> QualityBounds[QualityKeys[j]]
    [] factor = "catalysts" -> CatalystBounds[CatalystKeys[j]]
    [] factor = "valuation" -> ValuationBounds[ValuationKeys[j]]
    [] factor = "risk" -> RiskBounds[RiskKeys[j]]

Levels == {<<"mid", "above", "below", "upper", "lower">>[i] : i \in 1..NumLevels}

\* -1e6 is below every lower bound, 1e12 above every upper bound
LevelValue(bounds, level) ==
  CASE level = "mid" -> FDiv(FAdd(bounds[1], bounds[2]), FromInt(2))
    [] level = "above" -> Dec(1, 12)
    [] level = "below" -> Dec(-1, 6)
    [] level = "upper" -> bounds[2]
    [] level = "lower" -> bounds[1]
    [] level = "none" -> None

SubRecord(factor, base, j, level) ==
  LET fields == FactorFields[factor]
  IN  [f \in {fields[i] : i \in 1..Len(fields)} |->
         LET i == CHOOSE k \in 1..Len(fields) : fields[k] = f
         IN  LevelValue(FieldBounds(factor, i), IF i = j THEN level ELSE base)]

SubRecords(factor) ==
  LET fields == FactorFields[factor]
  IN  {SubRecord(factor, base, j, level) :
         base \in Levels, j \in 1..Len(fields), level \in Levels}
      \cup {SubRecord(factor, base, j, "none") :
              base \in Levels, j \in {k \in 1..Len(fields) : fields[k] \in OptionalFields}}

Scorer(factor, m) ==
  CASE factor = "growth" -> score_growth(m)
    [] factor = "quality" -> score_quality(m)
    [] factor = "catalysts" -> score_catalysts(m)
    [] factor = "valuation" -> score_valuation(m)
    [] factor = "risk" -> score_risk(m)

(***************************************************************************)
(* State.  pc is the position of the caller; the other variables are the   *)
(* arguments and results of the calls.  A variable that a specification    *)
(* does not use stays None.                                                *)
(***************************************************************************)
VARIABLES
  pc,
  value, lower, upper, step, inv,
  factor, metrics, factor_score,
  config, norm, score, comp,
  companies, evaluated, ranked,
  scores, indicators, plan, error, holding, raw_weight,
  price_payloads, backtests,
  tuning_scores, tuning_backtests, pearson, optimization,
  _statuses, now, records,
  providers, _monitor, attempts, response,
  pipeline, indicator_cache, price_cache, ingested

stepVars == <<value, lower, upper, step, inv>>

scorerVars == <<factor, metrics, factor_score>>

scoreVars == <<config, norm, score, comp>>

rankVars == <<companies, evaluated, ranked>>

planVars == <<scores, indicators, plan, error, holding, raw_weight>>

backtestVars == <<price_payloads, backtests>>

tuneVars == <<tuning_scores, tuning_backtests, pearson, optimization>>

monitorVars == <<_statuses, now, records>>

failoverVars == <<providers, _monitor, attempts, response>>

ingestVars == <<pipeline, indicator_cache, price_cache, ingested>>

vars == <<pc, stepVars, scorerVars, scoreVars, rankVars, planVars, backtestVars,
          tuneVars, monitorVars, failoverVars, ingestVars>>

\* the variables of the groups gs are not used
Idle(gs) ==
  /\ IF "step" \in gs
     THEN value = None /\ lower = None /\ upper = None /\ step = None /\ inv = None
     ELSE TRUE
  /\ IF "scorer" \in gs THEN factor = None /\ metrics = None /\ factor_score = None ELSE TRUE
  /\ IF "score" \in gs
     THEN config = None /\ norm = None /\ score = None /\ comp = None
     ELSE TRUE
  /\ IF "rank" \in gs THEN companies = None /\ evaluated = None /\ ranked = None ELSE TRUE
  /\ IF "plan" \in gs
     THEN scores = None /\ indicators = None /\ plan = None /\ error = None
     ELSE TRUE
  /\ IF "weight" \in gs THEN holding = None /\ raw_weight = None ELSE TRUE
  /\ IF "backtest" \in gs THEN price_payloads = None /\ backtests = None ELSE TRUE
  /\ IF "tune" \in gs
     THEN tuning_scores = None /\ tuning_backtests = None /\ pearson = None /\ optimization = None
     ELSE TRUE
  /\ IF "monitor" \in gs
     THEN _statuses = None /\ now = None /\ records = None
     ELSE TRUE
  /\ IF "failover" \in gs
     THEN providers = None /\ _monitor = None /\ attempts = None /\ response = None
     ELSE TRUE
  /\ IF "ingest" \in gs
     THEN pipeline = None /\ indicator_cache = None /\ price_cache = None /\ ingested = None
     ELSE TRUE

(***************************************************************************)
(* smooth_step and inverse_smooth_step on lower <= upper                   *)
(***************************************************************************)
InitStep ==
  /\ pc = "step"
  /\ value \in StepValues
  /\ lower \in StepValues
  /\ upper \in StepValues
  /\ FLe(lower, upper)
  /\ step = None /\ inv = None
  /\ Idle({"scorer", "score", "rank", "plan", "weight", "backtest",
          "tune", "monitor", "failover", "ingest"})

SmoothStep ==
  /\ pc = "step" /\ step = None
  /\ step' = smooth_step(value, lower, upper)
  /\ UNCHANGED <<pc, value, lower, upper, inv, scorerVars, scoreVars, rankVars, planVars, backtestVars,
                 tuneVars, monitorVars, failoverVars, ingestVars>>

InverseSmoothStep ==
  /\ pc = "step" /\ inv = None
  /\ inv' = inverse_smooth_step(value, lower, upper)
  /\ UNCHANGED <<pc, value, lower, upper, step, scorerVars, scoreVars, rankVars, planVars, backtestVars,
                 tuneVars, monitorVars, failoverVars, ingestVars>>

SpecStep == InitStep /\ [][SmoothStep \/ InverseSmoothStep]_vars

(***************************************************************************)
(* the five factor scorers                                                 *)
(***************************************************************************)
InitScorer ==
  /\ pc = "scorer"
  /\ factor \in Factors
  /\ metrics \in SubRecords(factor)
  /\ factor_score = None
  /\ Idle({"step", "score", "rank", "plan", "weight", "backtest",
          "tune", "monitor", "failover", "ingest"})

\* the scorer of factor f has returned result
ScoreFactor(f, result) ==
  /\ pc = "scorer" /\ factor = f /\ factor_score = None
  /\ factor_score' = result
  /\ pc' = "factor_scored"
  /\ UNCHANGED <<factor, metrics, stepVars, scoreVars, rankVars, planVars, backtestVars,
                 tuneVars, monitorVars, failoverVars, ingestVars>>

\* one call of one of the five scorers
NextScorer ==
  \/ ScoreFactor("growth", score_growth(metrics))
  \/ ScoreFactor("quality", score_quality(metrics))
  \/ ScoreFactor("catalysts", score_catalysts(metrics))
  \/ ScoreFactor("valuation", score_valuation(metrics))
  \/ ScoreFactor("risk", score_risk(metrics))

SpecScorer == InitScorer /\ [][NextScorer]_vars

(***************************************************************************)
(* WeightConfig.normalized, evaluate_company, ScoreBreakdown.composite     *)
(***************************************************************************)
InitScore ==
  /\ pc = "config"
  /\ config \in WeightConfigs \cup {None}
  /\ norm = None /\ score = None /\ comp = None
  /\ Idle({"step", "scorer", "rank", "plan", "weight", "backtest",
          "tune", "monitor", "failover", "ingest"})

\* config.normalized()
Normalized ==
  /\ config # None /\ norm = None
  /\ norm' = normalized(config)
  /\ UNCHANGED <<pc, config, score, comp, stepVars, scorerVars, rankVars, planVars, backtestVars,
                 tuneVars, monitorVars, failoverVars, ingestVars>>

\* evaluate_company(indicators, weight_config=config)
EvaluateCompany ==
  /\ pc = "config"
  /\ \E i \in 1..NumCompanies : score' = evaluate_company(IndicatorPool[i], config)
  /\ pc' = "scored"
  /\ UNCHANGED <<config, norm, comp, stepVars, scorerVars, rankVars, planVars, backtestVars,
                 tuneVars, monitorVars, failoverVars, ingestVars>>

\* ScoreBreakdown(..., weights=config) built directly from factor scores
NewScoreBreakdown ==
  /\ pc = "config"
  /\ \E i \in 1..NumScoreVectors :
       score' = ScoreBreakdown("ACME", "Acme Corp.", ScoreVectors[i], config)
  /\ pc' = "scored"
  /\ UNCHANGED <<config, norm, comp, stepVars, scorerVars, rankVars, planVars, backtestVars,
                 tuneVars, monitorVars, failoverVars, ingestVars>>

\* score.composite
ReadComposite ==
  /\ pc = "scored"
  /\ comp' = composite(score)
  /\ pc' = "read"
  /\ UNCHANGED <<config, norm, score, stepVars, scorerVars, rankVars, planVars, backtestVars,
                 tuneVars, monitorVars, failoverVars, ingestVars>>

\* score.weights = w (the dataclass is not frozen); the value read before
\* is the caller's and says nothing about the object any more
AssignWeights ==
  /\ pc = "read"
  /\ \E w \in {None, WeightPool[2]} :
       /\ w # score.weights
       /\ score' = [score EXCEPT !.weights = w]
  /\ comp' = None
  /\ pc' = "scored"
  /\ UNCHANGED <<config, norm, stepVars, scorerVars, rankVars, planVars, backtestVars,
                 tuneVars, monitorVars, failoverVars, ingestVars>>

SpecScore ==
  InitScore
    /\ [][Normalized \/ EvaluateCompany \/ NewScoreBreakdown \/ ReadComposite \/ AssignWeights]_vars

(***************************************************************************)
(* rank_companies                                                          *)
(***************************************************************************)
CompanyLists ==
  {[i \in 1..Len(q) |-> IndicatorPool[q[i]]] :
     q \in {p \in SeqsUpTo(1..NumCompanies, MaxCompanies) : Distinct(p)}}

InitRank ==
  /\ pc = "rank"
  /\ companies \in CompanyLists
  /\ config \in {None, WeightPool[2], WeightPool[5]}
  /\ evaluated = None /\ ranked = None
  /\ norm = None /\ score = None /\ comp = None
  /\ Idle({"step", "scorer", "plan", "weight", "backtest",
          "tune", "monitor", "failover", "ingest"})

\* evaluated is the local list `scores` of line 35
RankCompanies ==
  /\ pc = "rank"
  /\ \E r \in {rank_companies(companies, config)} :
       evaluated' = r.scores /\ ranked' = r.ranked
  /\ pc' = "ranked"
  /\ UNCHANGED <<companies, stepVars, scorerVars, scoreVars, planVars, backtestVars,
                 tuneVars, monitorVars, failoverVars, ingestVars>>

SpecRank == InitRank /\ [][RankCompanies]_vars

(***************************************************************************)
(* build_portfolio_plan                                                    *)
(***************************************************************************)
\* the score of the i-th company: factor scores i, default weights
PoolScore(i) ==
  ScoreBreakdown(IndicatorPool[i].ticker, IndicatorPool[i].name, ScoreVectors[i], None)

\* the indicator dict of the first k companies
IndicatorMap(k) ==
  [t \in {IndicatorPool[i].ticker : i \in 1..k} |->
     IndicatorPool[CHOOSE i \in 1..k : IndicatorPool[i].ticker = t]]

InitPlan ==
  /\ pc = "plan"
  /\ scores \in {[i \in 1..Len(q) |-> PoolScore(q[i])] :
                   q \in SeqsUpTo(1..NumCompanies, MaxScores)}
  /\ indicators \in {IndicatorMap(k) : k \in 0..NumCompanies}
  /\ plan = None /\ error = None
  /\ Idle({"step", "scorer", "score", "rank", "weight", "backtest",
          "tune", "monitor", "failover", "ingest"})

BuildPortfolioPlan ==
  /\ pc = "plan"
  /\ \E r \in {build_portfolio_plan(scores, indicators)} :
       plan' = r.plan /\ error' = r.error
  /\ pc' = "built"
  /\ UNCHANGED <<scores, indicators, holding, raw_weight, stepVars, scorerVars, scoreVars,
                 rankVars, backtestVars,
                 tuneVars, monitorVars, failoverVars, ingestVars>>

SpecPlan == InitPlan /\ [][BuildPortfolioPlan]_vars

(***************************************************************************)
(* _raw_weight                                                             *)
(***************************************************************************)
\* RiskMetrics(market_cap, avg_daily_dollar_volume, beta, volatility_3y,
\* drawdown_1y) around the thresholds 1e9, 1e7 and 0.15 of _raw_weight:
\* thin only, small and calm, exactly at the thresholds, thin and small and calm
RiskProfiles ==
  {Floats(r, 1) :
     r \in {[market_cap |-> <<42, 8>>, avg_daily_dollar_volume |-> <<5, 6>>, beta |-> <<1, 0>>,
             volatility_3y |-> <<32, -2>>, drawdown_1y |-> <<2, -1>>],
            [market_cap |-> <<5, 8>>, avg_daily_dollar_volume |-> <<45, 6>>, beta |-> <<1, 0>>,
             volatility_3y |-> <<1, -1>>, drawdown_1y |-> <<2, -1>>],
            [market_cap |-> <<1, 9>>, avg_daily_dollar_volume |-> <<1, 7>>, beta |-> <<1, 0>>,
             volatility_3y |-> <<15, -2>>, drawdown_1y |-> <<2, -1>>],
            [market_cap |-> <<0, 0>>, avg_daily_dollar_volume |-> <<0, 0>>, beta |-> <<1, 0>>,
             volatility_3y |-> <<5, -2>>, drawdown_1y |-> <<2, -1>>]}}

InitWeight ==
  /\ pc = "weight"
  /\ holding = None /\ raw_weight = None
  /\ Idle({"step", "scorer", "score", "rank", "plan", "backtest",
          "tune", "monitor", "failover", "ingest"})

\* _raw_weight(score, data): the score with any factor scores, under no
\* weights or weights with a negative entry; the record with its own risk
\* block or one of the profiles
RawWeight ==
  /\ pc = "weight"
  /\ \E i \in 1..NumCompanies, j \in 1..NumScoreVectors, w \in {None, WeightPool[4]} :
       \E r \in RiskProfiles \cup {IndicatorPool[i].risk} :
         holding' = [score |-> ScoreBreakdown(IndicatorPool[i].ticker, IndicatorPool[i].name,
                                              ScoreVectors[j], w),
                     data |-> [IndicatorPool[i] EXCEPT !.risk = r]]
  /\ raw_weight' = _raw_weight(holding'.score, holding'.data)
  /\ pc' = "weighed"
  /\ UNCHANGED <<scores, indicators, plan, error, stepVars, scorerVars, scoreVars, rankVars,
                 backtestVars,
                 tuneVars, monitorVars, failoverVars, ingestVars>>

SpecWeight == InitWeight /\ [][RawWeight]_vars

(***************************************************************************)
(* run_backtest, run_backtests                                             *)
(***************************************************************************)
InitBacktest ==
  /\ pc = "backtest"
  /\ price_payloads \in
       {[i \in 1..Len(q) |-> [ticker |-> <<"CLS", "SMCI", "NVST", "NEWCO">>[i],
                               payload |-> PayloadPool[q[i]]]] :
          q \in SeqsUpTo(1..NumPayloads, MaxBatch)}
  /\ backtests = None
  /\ Idle({"step", "scorer", "score", "rank", "plan", "weight",
          "tune", "monitor", "failover", "ingest"})

\* run_backtest on the only item
RunBacktest ==
  /\ pc = "backtest"
  /\ Len(price_payloads) = 1
  /\ backtests' = run_backtest(price_payloads[1].ticker, price_payloads[1].payload)
  /\ pc' = "backtested"
  /\ UNCHANGED <<price_payloads, stepVars, scorerVars, scoreVars, rankVars, planVars,
                 tuneVars, monitorVars, failoverVars, ingestVars>>

RunBacktests ==
  /\ pc = "backtest"
  /\ backtests' = run_backtests(price_payloads)
  /\ pc' = "batch_done"
  /\ UNCHANGED <<price_payloads, stepVars, scorerVars, scoreVars, rankVars, planVars,
                 tuneVars, monitorVars, failoverVars, ingestVars>>

SpecBacktest == InitBacktest /\ [][RunBacktest \/ RunBacktests]_vars

(***************************************************************************)
(* recommend_weights                                                       *)
(***************************************************************************)
\* one score for each of some companies, under no weights; results of the
\* pool; Series.corr is undefined for fewer than two joined rows
InitTune ==
  /\ pc = "tune"
  /\ tuning_scores \in {[i \in 1..Len(q) |-> PoolScore(q[i])] :
                          q \in {r \in SeqsUpTo(1..NumTuningScores, MaxTuning) : Distinct(r)}}
  /\ tuning_backtests \in {[i \in 1..Len(q) |-> BacktestPool[q[i]]] :
                             q \in SeqsUpTo(1..NumTuningBacktests, MaxTuning)}
  /\ pearson \in {CorrelationPool[i] : i \in 1..NumCorrelations}
  /\ Len(merge(tuning_scores, tuning_backtests)) < 2 => pearson = CorrelationPool[1]
  /\ optimization = None
  /\ Idle({"step", "scorer", "score", "rank", "plan", "weight", "backtest",
           "monitor", "failover", "ingest"})

RecommendWeights ==
  /\ pc = "tune"
  /\ optimization' = recommend_weights(tuning_scores, tuning_backtests, pearson)
  /\ pc' = "tuned"
  /\ UNCHANGED <<tuning_scores, tuning_backtests, pearson, stepVars, scorerVars, scoreVars,
                 rankVars, planVars, backtestVars, monitorVars, failoverVars, ingestVars>>

SpecTune == InitTune /\ [][RecommendWeights]_vars

(***************************************************************************)
(* ProviderHealthMonitor: record_success, record_failure                   *)
(* records is the history of the calls made on the monitor.                *)
(***************************************************************************)
InitMonitor ==
  /\ pc = "monitor"
  /\ _statuses \in {ProviderHealthMonitor(provider_names) : provider_names \in SUBSET ProviderNames}
  /\ now = 0
  /\ records = <<>>
  /\ Idle({"step", "scorer", "score", "rank", "plan", "weight", "backtest", "tune",
           "failover", "ingest"})

RecordSuccess ==
  /\ pc = "monitor" /\ Len(records) < MaxRecords
  /\ \E name \in ProviderNames :
       /\ _statuses' = record_success(_statuses, name, FromInt(now))
       /\ records' = Append(records, [call |-> "record_success", name |-> name])
  /\ now' = now + 1
  /\ UNCHANGED <<pc, stepVars, scorerVars, scoreVars, rankVars, planVars, backtestVars,
                 tuneVars, failoverVars, ingestVars>>

RecordFailure ==
  /\ pc = "monitor" /\ Len(records) < MaxRecords
  /\ \E name \in ProviderNames, message \in Messages :
       /\ _statuses' = record_failure(_statuses, name, message, FromInt(now))
       /\ records' = Append(records, [call |-> "record_failure", name |-> name])
  /\ now' = now + 1
  /\ UNCHANGED <<pc, stepVars, scorerVars, scoreVars, rankVars, planVars, backtestVars,
                 tuneVars, failoverVars, ingestVars>>

SpecMonitor == InitMonitor /\ [][RecordSuccess \/ RecordFailure]_vars

(***************************************************************************)
(* FailoverProvider: attach_monitor, fundamentals, price_series            *)
(* attempts is the history of the calls made on child providers.           *)
(***************************************************************************)
\* FailoverProvider(pairs, name="primary") for the pairs that leave a child
InitFailover ==
  /\ pc = "failover"
  /\ providers \in {Children([i \in 1..Len(q) |-> ProviderPool[q[i]]]) :
                      q \in SeqsUpTo(1..NumProviders, MaxChain)} \ {<<>>}
  /\ _monitor = None
  /\ _statuses = ProviderHealthMonitor({})
  /\ now = 0
  /\ records = <<>>
  /\ attempts = <<>>
  /\ response = None
  /\ Idle({"step", "scorer", "score", "rank", "plan", "weight", "backtest", "tune", "ingest"})

\* attach_monitor(monitor)
AttachMonitor ==
  /\ pc = "failover" /\ _monitor = None
  /\ _monitor' = [monitor |-> "ProviderHealthMonitor"]
  /\ UNCHANGED <<pc, providers, attempts, response, monitorVars, stepVars, scorerVars, scoreVars,
                 rankVars, planVars, backtestVars, tuneVars, ingestVars>>

\* the call has come back with final
Answered(method, ticker, final) ==
  /\ _statuses' = final.statuses
  /\ now' = final.time
  /\ records' = final.records
  /\ attempts' = final.attempts
  /\ response' = [method |-> method, ticker |-> ticker, result |-> final.result]
  /\ pc' = "answered"
  /\ UNCHANGED <<providers, _monitor, stepVars, scorerVars, scoreVars, rankVars, planVars,
                 backtestVars, tuneVars, ingestVars>>

Fundamentals ==
  /\ pc = "failover"
  /\ \E ticker \in Tickers :
       Answered("fundamentals", ticker,
                fundamentals([providers |-> providers, name |-> "primary", _monitor |-> _monitor],
                             ticker,
                             [statuses |-> _statuses, time |-> now, attempts |-> attempts,
                              records |-> records, result |-> None]))

PriceSeries ==
  /\ pc = "failover"
  /\ \E ticker \in Tickers :
       Answered("price_series", ticker,
                price_series([providers |-> providers, name |-> "primary", _monitor |-> _monitor],
                             ticker,
                             [statuses |-> _statuses, time |-> now, attempts |-> attempts,
                              records |-> records, result |-> None]))

SpecFailover == InitFailover /\ [][AttachMonitor \/ Fundamentals \/ PriceSeries]_vars

(***************************************************************************)
(* DataIngestionManager: get_company                                       *)
(***************************************************************************)
\* DataIngestionManager(IndicatorPipeline(PipelineConfig(providers), monitor))
\* over caches that hold nothing or an entry for CLS
InitIngest ==
  /\ pc = "ingest"
  /\ pipeline \in {[providers |-> d, monitor |-> mon] :
                     d \in ProviderDicts, mon \in {None, [monitor |-> "health_monitor"]}}
  /\ indicator_cache \in
       {[t \in Tickers |-> IF t = "CLS" THEN e ELSE None] :
          e \in CacheEntries(indicators_to_dict([ticker |-> "CLS", source |-> "cache",
                                                 metadata |-> <<>>]))}
  /\ price_cache \in
       {[t \in Tickers |-> IF t = "CLS" THEN e ELSE None] :
          e \in CacheEntries([candles |-> <<>>, symbol |-> "CLS"])}
  /\ _statuses = ProviderHealthMonitor(DOMAIN pipeline.providers)
  /\ now = 0
  /\ records = <<>>
  /\ attempts = <<>>
  /\ ingested = None
  /\ providers = None /\ _monitor = None /\ response = None
  /\ Idle({"step", "scorer", "score", "rank", "plan", "weight", "backtest", "tune"})

GetCompany ==
  /\ pc = "ingest"
  /\ \E ticker \in Symbols, force_refresh \in BOOLEAN :
       \E final \in {get_company([pipeline |-> pipeline], ticker, force_refresh,
                                  [indicator_cache |-> indicator_cache,
                                   price_cache |-> price_cache, statuses |-> _statuses,
                                   time |-> now, records |-> records, attempts |-> attempts,
                                   result |-> None])} :
         /\ indicator_cache' = final.indicator_cache
         /\ price_cache' = final.price_cache
         /\ _statuses' = final.statuses
         /\ now' = final.time
         /\ records' = final.records
         /\ attempts' = final.attempts
         /\ ingested' = [ticker |-> ticker, force_refresh |-> force_refresh,
                         result |-> final.result]
  /\ pc' = "ingested"
  /\ UNCHANGED <<pipeline, providers, _monitor, response, stepVars, scorerVars, scoreVars,
                 rankVars, planVars, backtestVars, tuneVars>>

SpecIngest == InitIngest /\ [][GetCompany]_vars

(***************************************************************************)
(* Properties.  Float results are compared exactly unless a property says  *)
(* otherwise; Tolerance is 2^-48, sixteen units in the last place of 1.0.  *)
(***************************************************************************)
Tolerance == [sgn |-> 1, man |-> <<0, 0, 0, 128>>, exp |-> -100]

Near(x, y) == FLe(FSub(y, Tolerance), x) /\ FLe(x, FAdd(y, Tolerance))

FiveOf(w) == <<w.growth, w.quality, w.catalysts, w.valuation, w.risk>>

Sum5(w) == FSum(FiveOf(w))

NonNegative(w) == \A i \in 1..5 : FGe(FiveOf(w)[i], F0)

InUnit(x) == FGe(x, F0) /\ FLe(x, F1)

Least(xs) == CHOOSE x \in {xs[i] : i \in 1..Len(xs)} : \A i \in 1..Len(xs) : FLe(x, xs[i])

Greatest(xs) == CHOOSE x \in {xs[i] : i \in 1..Len(xs)} : \A i \in 1..Len(xs) : FGe(x, xs[i])

\* growth*w.growth + quality*w.quality + catalysts*w.catalysts + valuation*w.valuation + risk*w.risk
Dot(s, w) ==
  FAdd(FAdd(FAdd(FAdd(FMul(s.growth, w.growth), FMul(s.quality, w.quality)),
                 FMul(s.catalysts, w.catalysts)),
            FMul(s.valuation, w.valuation)),
       FMul(s.risk, w.risk))

\* C1 (as stated): whatever weights a ScoreBreakdown with factor scores in
\* [0,1] stores, its composite is at least the least and at most the
\* greatest of its five factor scores.
C1_CompositeBetweenMinAndMax ==
  pc = "read" =>
    /\ FLe(Least(FiveOf(score)), comp)
    /\ FLe(comp, Greatest(FiveOf(score)))

\* C1 (amended): when the stored weights are all non-negative, or none are
\* stored, the composite is non-negative and lies between the least and the
\* greatest factor score up to the rounding of the float arithmetic
\* (Tolerance), hence in [0, 1 + Tolerance].
C1_CompositeNearFactorRange ==
  pc = "read" /\ (score.weights = None \/ NonNegative(score.weights)) =>
    /\ FGe(comp, F0)
    /\ FLe(FSub(Least(FiveOf(score)), Tolerance), comp)
    /\ FLe(comp, FAdd(Greatest(FiveOf(score)), Tolerance))
    /\ FLe(comp, FAdd(F1, Tolerance))

\* C1 witness: five factor scores of 0.5 under the default weights read as
\* a composite just below 0.5
C1_RoundedBelowMinimum ==
  /\ pc = "read"
  /\ score.weights = None
  /\ \A i \in 1..5 : FiveOf(score)[i] = Dec(5, -1)
  /\ FLt(comp, Dec(5, -1))
  /\ FGe(comp, FSub(Dec(5, -1), Tolerance))

\* C2 (as stated): normalized() returns weights whose sum is exactly 1, each
\* the input weight divided by the input sum when that sum is positive, each
\* 1/5 otherwise.
C2_NormalizedSumsToExactlyOne ==
  norm # None =>
    LET total == Sum5(config)
    IN  /\ Sum5(norm) = F1
        /\ FGt(total, F0) =>
             \A i \in 1..5 : FiveOf(norm)[i] = FDiv(FiveOf(config)[i], total)
        /\ FLe(total, F0) => \A i \in 1..5 : FiveOf(norm)[i] = Dec(2, -1)

\* C2 (amended): when the input sum is <= 0 normalized() returns five weights
\* of 1/5, whose sum is exactly 1; otherwise each weight is the input weight
\* times the reciprocal of the input sum, and for non-negative input the
\* five results sum to 1 up to Tolerance.
C2_NormalizedSumsToOneRounded ==
  norm # None =>
    LET total == Sum5(config)
    IN  /\ FLe(total, F0) =>
             /\ \A i \in 1..5 : FiveOf(norm)[i] = Dec(2, -1)
             /\ Sum5(norm) = F1
        /\ FGt(total, F0) =>
             \A i \in 1..5 : FiveOf(norm)[i] = FMul(FiveOf(config)[i], FDiv(F1, total))
        /\ FGt(total, F0) /\ NonNegative(config) => Near(Sum5(norm), F1)

\* C2 witness: a positive-sum configuration whose normalized weights do not
\* add up to 1.0
C2_NormalizedSumOffByRounding ==
  /\ norm # None
  /\ FGt(Sum5(config), F0)
  /\ NonNegative(config)
  /\ Sum5(norm) # F1
  /\ Near(Sum5(norm), F1)

\* C3: rank_companies returns one ScoreBreakdown per input record, a
\* permutation of the evaluations, with composite non-increasing along the
\* list and companies of equal composite in their input order.
C3_RankIsStableDescendingPermutation ==
  pc = "ranked" =>
    /\ Len(evaluated) = Len(companies)
    /\ Len(ranked) = Len(companies)
    /\ \A i \in 1..Len(companies) :
         evaluated[i].ticker = companies[i].ticker /\ evaluated[i].weights = config
    /\ \E keys \in {[i \in 1..Len(evaluated) |-> composite(evaluated[i])]} :
         \E p \in Permutations(1..Len(companies)) :
           /\ \A i \in 1..Len(companies) : ranked[i] = evaluated[p[i]]
           /\ \A i, j \in 1..Len(companies) :
                i < j =>
                  /\ FGe(keys[p[i]], keys[p[j]])
                  /\ keys[p[i]] = keys[p[j]] => p[i] < p[j]

\* C3 witness: three companies ranked, two of them with equal composite,
\* and the ranking differs from the input order
C3_RankedWithTie ==
  /\ pc = "ranked"
  /\ Len(ranked) = 3
  /\ ranked # evaluated
  /\ \E i, j \in 1..3 :
       i < j /\ ranked[i].ticker = "CLS" /\ ranked[j].ticker = "TWIN"
             /\ composite(ranked[i]) = composite(ranked[j])

\* C4 (as stated): when at least one score has a matching indicator record,
\* build_portfolio_plan returns suggestions whose weights sum to 1, each
\* 1/n when the total raw weight is <= 0.
C4_PlanWeightsSumToOne ==
  pc = "built" /\ (\E i \in 1..Len(scores) : scores[i].ticker \in DOMAIN indicators) =>
    /\ error = None
    /\ Len(plan.suggestions) > 0
    /\ Near(FSum([i \in 1..Len(plan.suggestions) |-> plan.suggestions[i].weight]), F1)
    /\ (\A i \in 1..Len(plan.suggestions) : FLe(plan.suggestions[i].composite, F0)) =>
         \A i \in 1..Len(plan.suggestions) :
           plan.suggestions[i].weight = FDiv(F1, FromInt(Len(plan.suggestions)))

\* C5: every factor scorer returns a float in [0,1] without raising, for
\* metrics far above and far below the bounds, and a None optional metric
\* is scored as 0.0 would be.
C5_ScorersTotalInUnitInterval ==
  pc = "factor_scored" =>
    /\ "raised" \notin DOMAIN factor_score
    /\ InUnit(factor_score)
    /\ \A f \in OptionalFields \cap DOMAIN metrics :
         metrics[f] = None => factor_score = Scorer(factor, [metrics EXCEPT ![f] = F0])

\* C5 witness: the catalysts scorer on metrics far above their bounds and no
\* strategic_investor_presence
C5_ScoredWithMissingOptional ==
  /\ pc = "factor_scored"
  /\ factor = "catalysts"
  /\ metrics.strategic_investor_presence = None
  /\ FGt(metrics.theme_alignment, FromInt(1000))
  /\ "raised" \notin DOMAIN factor_score
  /\ FGt(factor_score, F0) /\ FLt(factor_score, F1)

\* C6: for lower < upper smooth_step is 0 up to lower, 1 from upper on and
\* (value - lower) / (upper - lower) in between; for lower = upper it is 1
\* when value >= upper and 0 otherwise; it is always in [0,1] and never
\* decreases when value grows.
C6_SmoothStepPiecewiseMonotone ==
  step # None =>
    /\ InUnit(step)
    /\ FLt(lower, upper) =>
         /\ FLe(value, lower) => step = F0
         /\ FGe(value, upper) => step = F1
         /\ FGt(value, lower) /\ FLt(value, upper) =>
              step = FDiv(FSub(value, lower), FSub(upper, lower))
    /\ lower = upper => step = (IF FGe(value, upper) THEN F1 ELSE F0)
    /\ \A v \in StepValues :
         /\ FLe(v, value) => FLe(smooth_step(v, lower, upper), step)
         /\ FLe(value, v) => FLe(step, smooth_step(v, lower, upper))

\* C6 witness: a value strictly between distinct bounds, scored strictly
\* between 0 and 1
C6_SteppedBetweenBounds ==
  /\ step # None
  /\ FLt(lower, value) /\ FLt(value, upper)
  /\ FGt(step, F0) /\ FLt(step, F1)

\* C7 (as stated): for every value and all bounds lower <= upper, equal
\* bounds included, inverse_smooth_step = 1 - smooth_step.
C7_InverseIsComplement ==
  step # None /\ inv # None => inv = FSub(F1, step)

\* C8 (as stated): the composite read from a ScoreBreakdown is the dot
\* product of its factor scores with the normalized form of the weights
\* passed to evaluate, or with the preset (0.32, 0.22, 0.18, 0.18, 0.10)
\* when none were passed.
C8_CompositeIsDotWithNormalized ==
  pc = "read" =>
    comp = Dot(score, IF score.weights = None
                      THEN Floats(WC(<<32, -2>>, <<22, -2>>, <<18, -2>>, <<18, -2>>, <<10, -2>>), 1)
                      ELSE normalized(score.weights))

\* C8 (amended): a ScoreBreakdown has no composite field and evaluate stores
\* the weights it was passed; every read of the composite is the dot
\* product of the factor scores with the stored weights normalized twice
\* (normalized().to_dict() normalizes again), and when no weights are stored
\* the weights used are exactly 0.32, 0.22, 0.18, 0.18, 0.10.
C8_CompositeRecomputedFromStoredWeights ==
  /\ [](score # None => "composite" \notin DOMAIN score)
  /\ [][pc = "config" /\ pc' = "scored" => score'.weights = config]_vars
  /\ [][pc = "scored" /\ pc' = "read" =>
          comp' = Dot(score, IF score.weights = None
                             THEN Floats(WC(<<32, -2>>, <<22, -2>>, <<18, -2>>, <<18, -2>>,
                                            <<10, -2>>), 1)
                             ELSE normalized(normalized(score.weights)))]_vars

\* C8 witness: a sample company evaluated under explicit weights, its
\* composite read
C8_EvaluatedCompositeRead ==
  /\ pc = "read"
  /\ score.ticker = "CLS"
  /\ score.weights = WeightPool[3]
  /\ score.weights = config
  /\ FGt(comp, F0)

\* C9 (as stated): build_portfolio_plan raises nothing and returns exactly
\* one position per score whose ticker is in the indicator map, in the
\* input order of the scores.
C9_UnmatchedScoresDropped ==
  pc = "built" =>
    /\ error = None
    /\ LET kept == SelectSeq(scores, LAMBDA s : s.ticker \in DOMAIN indicators)
       IN  /\ Len(plan.suggestions) = Len(kept)
           /\ \A i \in 1..Len(kept) : plan.suggestions[i].ticker = kept[i].ticker

\* C10: with no score, or no score whose ticker is in the indicator map,
\* build_portfolio_plan raises nothing and returns the plan with no
\* suggestions, expected return 0, volatility proxy 0, diversification
\* index 0, no sector allocations and no scenarios.
C10_NoMatchGivesEmptyPlan ==
  pc = "built" /\ (\A i \in 1..Len(scores) : scores[i].ticker \notin DOMAIN indicators) =>
    /\ error = None
    /\ plan = [suggestions |-> <<>>, expected_return |-> F0, volatility_proxy |-> F0,
               diversification_index |-> F0, sector_allocations |-> <<>>,
               scenarios |-> <<>>]

\* C10 witness: two scores, a non-empty indicator map holding neither
\* ticker, and the call has returned
C10_BuiltWithoutMatch ==
  /\ pc = "built"
  /\ Len(scores) = 2
  /\ DOMAIN indicators # {}
  /\ \A i \in 1..Len(scores) : scores[i].ticker \notin DOMAIN indicators
  /\ error = None
  /\ plan.suggestions = <<>>

\* C11: the raw weight is max(composite, 0) * liquidity_penalty /
\* max(volatility_3y, 0.15), with liquidity_penalty 1.0, times 0.7 when the
\* average daily dollar volume is below 1e7, times 0.5 when the market cap is
\* below 1e9 (0.35 when both); it is never negative and the divisor is never
\* below 0.15.
C11_RawWeightFormula ==
  pc = "weighed" =>
    \E read \in {composite(holding.score)},
       liquidity_penalty \in
         {IF FLt(holding.data.risk.avg_daily_dollar_volume, Dec(1, 7))
          THEN (IF FLt(holding.data.risk.market_cap, Dec(1, 9)) THEN Dec(35, -2) ELSE Dec(7, -1))
          ELSE (IF FLt(holding.data.risk.market_cap, Dec(1, 9)) THEN Dec(5, -1) ELSE F1)},
       divisor \in
         {IF FLt(holding.data.risk.volatility_3y, Dec(15, -2)) THEN Dec(15, -2)
          ELSE holding.data.risk.volatility_3y} :
      \E product \in {FMul(IF FGt(read, F0) THEN read ELSE F0, liquidity_penalty)} :
        /\ raw_weight = FDiv(product, divisor)
        /\ FGe(raw_weight, F0)
        /\ FGe(divisor, Dec(15, -2))

\* C11 witness: a thin, small, calm company with a positive composite gets
\* a positive raw weight
C11_WeighedThinSmallCalm ==
  /\ pc = "weighed"
  /\ FLt(holding.data.risk.avg_daily_dollar_volume, Dec(1, 7))
  /\ FLt(holding.data.risk.market_cap, Dec(1, 9))
  /\ FLt(holding.data.risk.volatility_3y, Dec(15, -2))
  /\ FGt(composite(holding.score), F0)
  /\ FGt(raw_weight, F0)

\* the scores that line 54 keeps, in input order
Kept == SelectSeq(scores, LAMBDA s : s.ticker \in DOMAIN indicators)

\* the sector the stated rule gives the record: its own sector when set,
\* else the sector of its metadata when present, else "Unclassified"
StatedSector(data) ==
  IF HasAttr(data, "sector") /\ TruthyStr(data.sector) THEN data.sector
  ELSE IF HasAttr(data, "metadata") /\ "sector" \in DOMAIN data.metadata
       THEN data.metadata.sector
  ELSE "Unclassified"

\* C12 (as stated): a plan with at least one position is returned, its
\* sector allocations are the position weights summed by the sector of each
\* company (own sector, else metadata sector, else "Unclassified"), and
\* the sector totals sum to 1.
C12_SectorTotalsByStatedSector ==
  pc = "built" /\ Kept # <<>> =>
    /\ error = None
    /\ DOMAIN plan.sector_allocations =
         {StatedSector(indicators[Kept[i].ticker]) : i \in 1..Len(Kept)}
    /\ \A k \in DOMAIN plan.sector_allocations :
         plan.sector_allocations[k] =
           FSum([j \in 1..Len(Kept) |->
                   IF StatedSector(indicators[Kept[j].ticker]) = k
                   THEN plan.suggestions[j].weight ELSE F0])
    /\ Near(FSum([j \in 1..Len(Kept) |-> plan.suggestions[j].weight]), F1)

\* C13 (as stated): a plan with at least one position is returned and its
\* diversification index is 1 minus the sum of the squared position
\* weights, 0 for a single holding and 1 - 1/n for n equal weights.
C13_DiversificationIsOneMinusSquares ==
  pc = "built" /\ Kept # <<>> =>
    /\ error = None
    /\ plan.diversification_index =
         FSub(F1, FSum([j \in 1..Len(Kept) |->
                          FMul(plan.suggestions[j].weight, plan.suggestions[j].weight)]))
    /\ Len(Kept) = 1 => plan.diversification_index = F0
    /\ (\A j \in 1..Len(Kept) : plan.suggestions[j].weight = plan.suggestions[1].weight)
         => Near(plan.diversification_index, FSub(F1, FDiv(F1, FromInt(Len(Kept)))))

\* C14 (as stated): a plan with at least one position is returned, its
\* expected-return proxy is the sum of weight * (growth + catalysts) and its
\* volatility proxy the sum of weight * volatility_3y over the positions,
\* and the expected-return proxy lies in [0,2].
C14_ProxiesAreWeightedSums ==
  pc = "built" /\ Kept # <<>> =>
    /\ error = None
    /\ plan.expected_return =
         FSum([j \in 1..Len(Kept) |->
                 FMul(plan.suggestions[j].weight, FAdd(Kept[j].growth, Kept[j].catalysts))])
    /\ plan.volatility_proxy =
         FSum([j \in 1..Len(Kept) |->
                 FMul(plan.suggestions[j].weight, indicators[Kept[j].ticker].risk.volatility_3y)])
    /\ FGe(plan.expected_return, F0) /\ FLe(plan.expected_return, FromInt(2))

\* C15 (as stated): every kept score gets a position whose notes are, in
\* this order, the liquidity note iff average daily dollar volume < 2e7, the
\* drawdown note iff 1-year drawdown > 0.35, the beta note iff beta > 1.3.
C15_NotesFollowThresholds ==
  pc = "built" /\ Kept # <<>> =>
    /\ error = None
    /\ Len(plan.suggestions) = Len(Kept)
    /\ \A j \in 1..Len(Kept) :
         plan.suggestions[j].notes =
           (IF FLt(indicators[Kept[j].ticker].risk.avg_daily_dollar_volume, Dec(2, 7))
            THEN <<"Thin liquidity - size carefully">> ELSE <<>>)
           \o (IF FGt(indicators[Kept[j].ticker].risk.drawdown_1y, Dec(35, -2))
               THEN <<"High recent drawdown">> ELSE <<>>)
           \o (IF FGt(indicators[Kept[j].ticker].risk.beta, Dec(13, -1))
               THEN <<"Elevated beta vs. market">> ELSE <<>>)

\* C16 (as stated): a second call of build_portfolio_plan with the same
\* scores and indicator records returns, like the first, a plan, and the
\* stress-scenario results of the two plans are the same.
C16_SecondCallSameScenarios ==
  pc = "built" /\ Kept # <<>> =>
    \E again \in {build_portfolio_plan(scores, indicators)} :
      /\ error = None /\ again.error = None
      /\ plan.scenarios # <<>>
      /\ again.plan.scenarios = plan.scenarios

\* C17 (as stated): a plan with at least one position is returned and has
\* exactly the scenarios "Base case", "Growth slowdown", "Hyper-growth", in
\* this order, with return shifts 1.0, 0.6, 1.4 and volatility multipliers
\* 1.0, 1.2, 0.9, each company's draws having mean max(growth + catalysts, 0)
\* times the shift and standard deviation max(volatility_3y, 0.05) times the
\* multiplier, 2000 draws per scenario weighted by the position weights.
C17_ThreeNamedScenarios ==
  pc = "built" /\ Kept # <<>> =>
    /\ error = None
    /\ Len(plan.scenarios) = 3
    /\ \A k \in 1..3 :
         \E shift \in {Floats(<<<<1, 0>>, <<6, -1>>, <<14, -1>>>>, 1)[k]},
            multiplier \in {Floats(<<<<1, 0>>, <<12, -1>>, <<9, -1>>>>, 1)[k]} :
           /\ plan.scenarios[k].name = <<"Base case", "Growth slowdown", "Hyper-growth">>[k]
           /\ plan.scenarios[k].first_draw = (k - 1) * 2000 * Len(Kept)
           /\ plan.scenarios[k].weights = [j \in 1..Len(Kept) |-> plan.suggestions[j].weight]
           /\ plan.scenarios[k].mean =
                [j \in 1..Len(Kept) |->
                   FMul(FMax(FAdd(Kept[j].growth, Kept[j].catalysts), F0), shift)]
           /\ plan.scenarios[k].sigma =
                [j \in 1..Len(Kept) |->
                   FMul(FMax(indicators[Kept[j].ticker].risk.volatility_3y, Dec(5, -2)),
                        multiplier)]

\* the results of the items that run_backtest accepts, in mapping order
Accepted(items) ==
  LET valid == SelectSeq(items, LAMBDA it : run_backtest(it.ticker, it.payload).error = None)
  IN  [i \in 1..Len(valid) |-> run_backtest(valid[i].ticker, valid[i].payload).result]

\* C18 (as stated): run_backtests raises nothing and returns exactly the
\* results of the tickers whose payload run_backtest accepts, in mapping
\* order, every other payload being skipped.
C18_BatchNeverAborts ==
  pc = "batch_done" =>
    /\ backtests.error = None
    /\ backtests.results = Accepted(price_payloads)

\* C19: run_backtest raises ValueError and returns no result when the payload
\* has no candles key or an empty candle list; for a non-empty list of
\* {date, close} candles it returns a result carrying the ticker passed.
C19_ValueErrorIffNoCandles ==
  pc = "backtested" =>
    /\ ("candles" \notin DOMAIN price_payloads[1].payload
          \/ price_payloads[1].payload.candles = <<>>)
         => backtests.error = Raised("ValueError") /\ backtests.result = None
    /\ ("candles" \in DOMAIN price_payloads[1].payload
          /\ price_payloads[1].payload.candles # <<>>
          /\ \A i \in 1..Len(price_payloads[1].payload.candles) :
               DOMAIN price_payloads[1].payload.candles[i] = {"date", "close"})
         => backtests.error = None /\ backtests.result.ticker = price_payloads[1].ticker

\* C19 witness: a call with a payload that has no candles key has raised
\* ValueError.
C19_RaisedForMissingCandles ==
  /\ pc = "backtested"
  /\ "candles" \notin DOMAIN price_payloads[1].payload
  /\ backtests.error = Raised("ValueError")

\* the {date, close} candle lists with pairwise distinct dates
DistinctDates(candles) ==
  /\ candles # <<>>
  /\ \A i \in 1..Len(candles) : DOMAIN candles[i] = {"date", "close"}
  /\ \A i, j \in 1..Len(candles) : i # j => candles[i].date # candles[j].date

\* C20: for a payload of {date, close} candles with pairwise distinct dates,
\* run_backtest returns the same cumulative return, CAGR and max drawdown for
\* every permutation of the candle list, and the cumulative return is that
\* from the close of the earliest date to the close of the latest.
C20_CandleOrderIrrelevant ==
  pc = "backtested" /\ "candles" \in DOMAIN price_payloads[1].payload
                    /\ DistinctDates(price_payloads[1].payload.candles) =>
    LET candles == price_payloads[1].payload.candles
        first == CHOOSE i \in 1..Len(candles) :
                   \A j \in 1..Len(candles) : candles[i].date <= candles[j].date
        last == CHOOSE i \in 1..Len(candles) :
                  \A j \in 1..Len(candles) : candles[i].date >= candles[j].date
    IN  /\ backtests.error = None
        /\ \A f \in Permutations(1..Len(candles)) :
             run_backtest(price_payloads[1].ticker,
                          [candles |-> [i \in 1..Len(candles) |-> candles[f[i]]]])
               = backtests
        /\ Len(candles) > 1 =>
             backtests.result.cumulative_return
               = FSub(FDiv(candles[last].close, candles[first].close), F1)

\* C20 witness: a backtest has returned for three candles of distinct dates
\* that the payload lists out of order.
C20_BacktestedOutOfOrder ==
  /\ pc = "backtested" /\ "candles" \in DOMAIN price_payloads[1].payload
  /\ DistinctDates(price_payloads[1].payload.candles)
  /\ Len(price_payloads[1].payload.candles) = 3
  /\ price_payloads[1].payload.candles[1].date > price_payloads[1].payload.candles[3].date
  /\ backtests.error = None
  /\ backtests.result.cumulative_return # F0

\* the orders of the candles by ascending date, candles of one date in
\* payload order
Chronological(candles) ==
  {f \in Permutations(1..Len(candles)) :
     \A i, j \in 1..Len(candles) :
       i < j => \/ candles[f[i]].date < candles[f[j]].date
                \/ candles[f[i]].date = candles[f[j]].date /\ f[i] < f[j]}

\* the closes of a {date, close} candle list in the order f
ClosesIn(candles, f) == [i \in 1..Len(candles) |-> candles[f[i]].close]

\* price over running maximum, minus one, at each point of a close series
Drawdowns(closes) ==
  [i \in 1..Len(closes) |-> FSub(FDiv(closes[i], Greatest(SubSeq(closes, 1, i))), F1)]

\* a backtest has returned a result for a payload of {date, close} candles
Backtested ==
  /\ pc = "backtested" /\ backtests.error = None
  /\ \A i \in 1..Len(price_payloads[1].payload.candles) :
       DOMAIN price_payloads[1].payload.candles[i] = {"date", "close"}

\* C21: the max drawdown of a backtest is the least, over the closes in date
\* order, of close / running maximum - 1; it is never above 0; it is 0 when
\* no close is below the one before it; and it is -0.5 when some close is
\* half the running maximum and none is below half of it.
C21_MaxDrawdownIsLeastRatio ==
  Backtested =>
    \A f \in Chronological(price_payloads[1].payload.candles) :
      \E closes \in {ClosesIn(price_payloads[1].payload.candles, f)} :
        /\ backtests.result.max_drawdown = Least(Drawdowns(closes))
        /\ FLe(backtests.result.max_drawdown, F0)
        /\ (\A i \in 1..Len(closes) - 1 : FLe(closes[i], closes[i + 1]))
             => backtests.result.max_drawdown = F0
        /\ ( /\ \E i \in 1..Len(closes) :
                  FMul(closes[i], Dec(2, 0)) = Greatest(SubSeq(closes, 1, i))
             /\ \A i \in 1..Len(closes) :
                  FGe(FMul(closes[i], Dec(2, 0)), Greatest(SubSeq(closes, 1, i))) )
             => backtests.result.max_drawdown = Dec(-5, -1)

\* C21 witness: a backtest has returned -0.5 for a series that halves and
\* ends back at its first close.
C21_HalvedAndRecovered ==
  /\ Backtested
  /\ Len(price_payloads[1].payload.candles) = 3
  /\ backtests.result.max_drawdown = Dec(-5, -1)
  /\ backtests.result.cumulative_return = F0

\* C22: the cumulative return of a backtest is last close / first close - 1
\* in date order when the payload has more than one candle and 0 when it has
\* exactly one; it is 0 when all closes are equal.
C22_CumulativeReturnFirstToLast ==
  Backtested =>
    \A f \in Chronological(price_payloads[1].payload.candles) :
      \E closes \in {ClosesIn(price_payloads[1].payload.candles, f)} :
        /\ Len(closes) > 1
             => backtests.result.cumulative_return
                  = FSub(FDiv(closes[Len(closes)], closes[1]), F1)
        /\ Len(closes) = 1 => backtests.result.cumulative_return = F0
        /\ (\A i \in 1..Len(closes) : closes[i] = closes[1])
             => backtests.result.cumulative_return = F0

\* C22 witness: a backtest has returned a positive cumulative return for
\* candles that the payload lists latest first.
C22_ReturnedGainLatestFirst ==
  /\ Backtested
  /\ Len(price_payloads[1].payload.candles) > 1
  /\ \A i \in 1..Len(price_payloads[1].payload.candles) - 1 :
       price_payloads[1].payload.candles[i].date > price_payloads[1].payload.candles[i + 1].date
  /\ FGt(backtests.result.cumulative_return, F0)

\* the exponent 1 / max(days / 365.25, 1 / 12) for a span of days
Annualising(days) ==
  CHOOSE exponent \in {FDiv(F1, years) :
                         years \in {FMax(span, FDiv(F1, FromInt(12))) :
                                      span \in {FDiv(FromInt(days), Dec(36525, -2))}}} : TRUE

\* the days from the earliest to the latest candle
SpanDays(candles) ==
  CHOOSE d \in {candles[i].date - candles[j].date : i, j \in 1..Len(candles)} :
    \A i, j \in 1..Len(candles) : d >= candles[i].date - candles[j].date

Partnered(xs, ys) ==
  SelectSeq(xs, LAMBDA x : \E j \in 1..Len(ys) : ys[j].ticker = x.ticker)

\* C24 (as stated): recommend_weights returns None exactly when the score
\* list is empty, the backtest list is empty, no ticker occurs in both lists,
\* or the CAGR of every result whose ticker a score carries is zero.
C24_NoneExactlyWhenAllCagrZero ==
  pc = "tuned" =>
    optimization = None
      <=> \/ tuning_scores = <<>>
          \/ tuning_backtests = <<>>
          \/ \A i \in 1..Len(tuning_scores), j \in 1..Len(tuning_backtests) :
               tuning_scores[i].ticker # tuning_backtests[j].ticker
          \/ \A i \in 1..Len(tuning_scores), j \in 1..Len(tuning_backtests) :
               tuning_scores[i].ticker = tuning_backtests[j].ticker
                 => tuning_backtests[j].cagr = F0

\* C24: recommend_weights returns None exactly when the score list is
\* empty, the backtest list is empty, no ticker occurs in both lists, or the
\* CAGR of every result whose ticker a score carries is zero or NaN; scores
\* and results without a partner in the other list do not change what is
\* returned.
C24_NoneExactlyWhenNothingToCorrelate ==
  pc = "tuned" =>
    /\ optimization = None
         <=> \/ tuning_scores = <<>>
             \/ tuning_backtests = <<>>
             \/ \A i \in 1..Len(tuning_scores), j \in 1..Len(tuning_backtests) :
                  tuning_scores[i].ticker # tuning_backtests[j].ticker
             \/ \A i \in 1..Len(tuning_scores), j \in 1..Len(tuning_backtests) :
                  tuning_scores[i].ticker = tuning_backtests[j].ticker
                    => tuning_backtests[j].cagr \in {F0, NaN}
    /\ optimization = recommend_weights(Partnered(tuning_scores, tuning_backtests),
                                        Partnered(tuning_backtests, tuning_scores), pearson)

\* C24 witness: a call whose only matched result has a NaN CAGR has
\* returned None.
C24_NoneForUndefinedCagr ==
  /\ pc = "tuned"
  /\ optimization = None
  /\ merge(tuning_scores, tuning_backtests) # <<>>
  /\ \A i \in 1..Len(merge(tuning_scores, tuning_backtests)) :
       merge(tuning_scores, tuning_backtests)[i].cagr = NaN

\* max(correlation, 0) of each factor, an undefined correlation counting 0.0
Clipped ==
  [f \in Factors |-> IF pearson[f] = NaN \/ FLt(pearson[f], F0) THEN F0 ELSE pearson[f]]

\* a recommendation has been returned
Recommended == pc = "tuned" /\ optimization # None

\* C25 (as stated): in every recommendation each proposed weight is
\* max(correlation, 0) divided by the sum of the five such values, none is
\* negative, a factor of negative or undefined correlation has weight 0, the
\* weights sum to 1, and the correlations returned are the raw ones with 0.0
\* for an undefined one.
C25_WeightsAreClippedShares ==
  Recommended =>
    \E total \in {Sum5(Clipped)} :
      /\ FGt(total, F0)
      /\ \A f \in Factors : optimization.recommended[f] = FDiv(Clipped[f], total)
      /\ NonNegative(optimization.recommended)
      /\ \A f \in Factors :
           pearson[f] = NaN \/ FLt(pearson[f], F0) => optimization.recommended[f] = F0
      /\ Sum5(optimization.recommended) = F1
      /\ \A f \in Factors :
           optimization.factor_correlations[f] = IF pearson[f] = NaN THEN F0 ELSE pearson[f]

\* C25: in a recommendation for correlations of which one at least is
\* positive, each proposed weight is max(correlation, 0) times the reciprocal
\* of the sum of the five such values, which is the quotient by that sum up
\* to Tolerance; none is negative, a factor of negative or undefined
\* correlation has weight 0, the weights sum to 1 up to Tolerance, and the
\* weights of two factors are in the ratio of their correlations up to
\* Tolerance.  In every recommendation the correlations returned are the
\* raw ones with 0.0 for an undefined one.
C25_ClippedSharesWhenSomePositive ==
  Recommended =>
    /\ \A f \in Factors :
         optimization.factor_correlations[f] = IF pearson[f] = NaN THEN F0 ELSE pearson[f]
    /\ (\E f \in Factors : FGt(Clipped[f], F0)) =>
         \E total \in {Sum5(Clipped)} :
           /\ \A f \in Factors :
                /\ optimization.recommended[f] = FMul(Clipped[f], FDiv(F1, total))
                /\ Near(optimization.recommended[f], FDiv(Clipped[f], total))
           /\ NonNegative(optimization.recommended)
           /\ \A f \in Factors :
                pearson[f] = NaN \/ FLt(pearson[f], F0) => optimization.recommended[f] = F0
           /\ Near(Sum5(optimization.recommended), F1)
           /\ \A f, g \in Factors :
                Near(FMul(optimization.recommended[f], Clipped[g]),
                     FMul(optimization.recommended[g], Clipped[f]))

\* C25 witness: a recommendation has been returned that gives weight 0 to a
\* factor of correlation -1 and a positive weight to another factor.
C25_AntiCorrelatedFactorDropped ==
  /\ Recommended
  /\ \E f \in Factors : pearson[f] = Dec(-1, 0) /\ optimization.recommended[f] = F0
  /\ \E f \in Factors : FGt(optimization.recommended[f], F0)

\* C27: when some score and some result share a ticker, some such result
\* has a CAGR that is a number other than 0, and no factor has a positive
\* correlation, recommend_weights returns a recommendation whose five
\* weights are all 0.2.
C27_EqualWeightsWithoutPositiveCorrelation ==
  pc = "tuned"
    /\ (\E i \in 1..Len(tuning_scores), j \in 1..Len(tuning_backtests) :
          /\ tuning_scores[i].ticker = tuning_backtests[j].ticker
          /\ tuning_backtests[j].cagr \notin {F0, NaN})
    /\ (\A f \in Factors : pearson[f] = NaN \/ FLe(pearson[f], F0))
    => /\ optimization # None
       /\ \A f \in Factors : optimization.recommended[f] = Dec(2, -1)

\* C27 witness: a call that joins a single company, of non-zero CAGR and
\* undefined correlations, has returned five weights of 0.2.
C27_OneCompanyEqualWeights ==
  /\ Recommended
  /\ Len(merge(tuning_scores, tuning_backtests)) = 1
  /\ \A f \in Factors : pearson[f] = NaN
  /\ optimization.recommended = Uniform(Dec(2, -1))

\* the key order, the weight table and the component table of a scorer
KeysOf(f) ==
  CASE f = "growth" -> GrowthKeys
    [] f = "quality" -> QualityKeys
    [] f = "catalysts" -> CatalystKeys
    [] f = "valuation" -> ValuationKeys
    [] f = "risk" -> RiskKeys

WeightsOf(f) ==
  CASE f = "growth" -> GrowthWeights
    [] f = "quality" -> QualityWeights
    [] f = "catalysts" -> CatalystWeights
    [] f = "valuation" -> ValuationWeights
    [] f = "risk" -> RiskWeights

ComponentsOf(f, m) ==
  CASE f = "growth" -> GrowthComponents(m, GrowthBounds)
    [] f = "quality" -> QualityComponents(m, QualityBounds)
    [] f = "catalysts" -> CatalystComponents(m, CatalystBounds)
    [] f = "valuation" -> ValuationComponents(m, ValuationBounds)
    [] f = "risk" -> RiskComponents(m, RiskBounds)

\* the sum of the internal weights of a scorer, in key order
WeightSum(f) == FSum([i \in 1..Len(KeysOf(f)) |-> WeightsOf(f)[KeysOf(f)[i]]])

\* the scorer has returned for a sub-record whose component k is 1 and
\* whose other components are 0
OnlyFullCredit(k) ==
  /\ pc = "factor_scored"
  /\ \A j \in DOMAIN ComponentsOf(factor, metrics) :
       ComponentsOf(factor, metrics)[j] = IF j = k THEN F1 ELSE F0

CallsFor(name) == SelectSeq(records, LAMBDA r : r.name = name)

\* C30: after any calls of record_success and record_failure, for every
\* name the monitor knows last_error and last_error_at are both set when the
\* latest call for the name was record_failure and both None otherwise; a
\* name for which a call was made is known; and record_failure changes
\* neither the last_success_at of its name nor the status of another name.
C30_ErrorSetIffLastCallFailed ==
  [][ /\ pc = "monitor" /\ pc' = "monitor"
        => /\ \A name \in ProviderNames : CallsFor(name)' # <<>> => name \in DOMAIN _statuses'
           /\ \A name \in DOMAIN _statuses' :
                IF CallsFor(name)' # <<>>
                     /\ CallsFor(name)'[Len(CallsFor(name)')].call = "record_failure"
                THEN _statuses'[name].last_error # None /\ _statuses'[name].last_error_at # None
                ELSE _statuses'[name].last_error = None /\ _statuses'[name].last_error_at = None
           /\ records'[Len(records')].call = "record_failure" =>
                \A name \in DOMAIN _statuses :
                  /\ _statuses'[name].last_success_at = _statuses[name].last_success_at
                  /\ name # records'[Len(records')].name => _statuses'[name] = _statuses[name] ]_vars

\* C30 witness: a success has cleared the error recorded for a name, and a
\* failure has then been recorded for another name.
C30_ClearedThenOtherFailed ==
  /\ pc = "monitor" /\ Len(records) = 3
  /\ records[1].call = "record_failure" /\ records[2].call = "record_success"
  /\ records[3].call = "record_failure"
  /\ records[1].name = records[2].name /\ records[3].name # records[2].name
  /\ _statuses[records[2].name].last_error = None
  /\ _statuses[records[2].name].last_success_at = FromInt(1)
  /\ _statuses[records[3].name].last_error_at = FromInt(2)

\* what child i of the chain does for the call that was answered
ChildResult(i) == providers[i].provider[response.method][response.ticker]

\* C28: fundamentals and price_series call the children in configured order,
\* return what the first child that does not raise returns without calling a
\* later one, and raise DataProviderError only when every child has raised;
\* with a monitor attached each child that was tried has exactly one record
\* under "<name>:<label>", a failure if it raised and a success if it
\* returned, and a child that was not tried has none.
C28_FailoverInOrderWithOneRecordEach ==
  pc = "answered" =>
    /\ Len(attempts) \in 1..Len(providers)
    /\ \A i \in 1..Len(attempts) :
         attempts[i] = [method |-> response.method, child |-> i]
    /\ \A i \in 1..(Len(attempts) - 1) : IsException(ChildResult(i))
    /\ IF IsException(response.result)
       THEN /\ response.result = Raised("DataProviderError")
            /\ Len(attempts) = Len(providers)
            /\ IsException(ChildResult(Len(attempts)))
       ELSE response.result = ChildResult(Len(attempts))
    /\ _monitor # None =>
         /\ Len(records) = Len(attempts)
         /\ \A i \in 1..Len(attempts) :
              records[i] = [call |-> IF IsException(ChildResult(i)) THEN "record_failure"
                                     ELSE "record_success",
                            name |-> "primary:" \o providers[i].label]
         /\ DOMAIN _statuses = {"primary:" \o providers[i].label : i \in 1..Len(attempts)}

\* a monitored chain of three whose first child raised and whose second
\* answered: the third was never called
C28_SecondChildAnsweredThirdUntried ==
  /\ pc = "answered" /\ _monitor # None
  /\ Len(providers) = 3 /\ Len(attempts) = 2
  /\ ~IsException(response.result)
  /\ records[1].call = "record_failure" /\ records[2].call = "record_success"
  /\ providers[3].label \notin {providers[1].label, providers[2].label}

\* the call of the step: the ticker looked up and whether it forces a refresh
Asked == str_upper(ingested'.ticker)

\* the indicators are built: nothing usable is cached or a refresh is forced
Building == ingested'.force_refresh \/ load(indicator_cache, Asked) = None

\* building the indicators raises: no primary provider, its fundamentals
\* raise, or the theme response cannot be read
BuildRaises ==
  /\ Building
  /\ \/ "primary" \notin DOMAIN pipeline.providers
     \/ IsException(pipeline.providers.primary.fundamentals[Asked])
     \/ /\ "themes" \in DOMAIN pipeline.providers
        /\ ~IsException(pipeline.providers.themes.fundamentals[Asked])
        /\ IsException(ThemeMetadata(pipeline.providers.themes.fundamentals[Asked]))

\* the prices are fetched and the fetch raises: in the provider or in the
\* normalisation of its response
PriceFetchRaises ==
  /\ ingested'.force_refresh \/ load(price_cache, Asked) = None
  /\ "primary" \in DOMAIN pipeline.providers
  /\ \/ IsException(pipeline.providers.primary.price_series[Asked])
     \/ IsException(_normalize_price_response(pipeline.providers.primary.price_series[Asked]))

\* C29: when building the indicators raises, get_company records a failure
\* under "primary", the exception reaches the caller and neither cache is
\* written; when only the price fetch raises, the exception is swallowed, a
\* failure is recorded under "primary_prices", the call returns the
\* indicators with price_history None and the price cache is unchanged.
C29_BuildFailurePropagatesPriceFailureSwallowed ==
  [][pc = "ingest" /\ pc' = "ingested" =>
       /\ BuildRaises =>
            /\ IsException(ingested'.result)
            /\ records' = Append(SubSeq(records', 1, Len(records') - 1),
                                 [call |-> "record_failure", name |-> "primary"])
            /\ Len(records') > Len(records)
            /\ _statuses'["primary"].last_error # None
            /\ indicator_cache' = indicator_cache
            /\ price_cache' = price_cache
       /\ ~BuildRaises /\ PriceFetchRaises =>
            /\ ~IsException(ingested'.result)
            /\ ingested'.result.price_history = None
            /\ ingested'.result.indicators =
                 (IF Building
                  THEN [ticker |-> Asked,
                        source |-> pipeline.providers.primary.fundamentals[Asked].source,
                        metadata |-> ingested'.result.indicators.metadata]
                  ELSE from_dict(load(indicator_cache, Asked)))
            /\ records' = Append(SubSeq(records', 1, Len(records') - 1),
                                 [call |-> "record_failure", name |-> "primary_prices"])
            /\ Len(records') > Len(records)
            /\ _statuses'["primary_prices"].last_error = Str("price fetch failed")
            /\ price_cache' = price_cache]_vars

\* a forced refresh of "cls" whose price response has a close of None: the
\* indicators were built and cached, the stale price entry is still there
C29_PriceFailureSwallowedOnRefresh ==
  /\ pc = "ingested" /\ ingested.ticker = "cls" /\ ingested.force_refresh
  /\ ~IsException(ingested.result)
  /\ ingested.result.price_history = None
  /\ ingested.result.indicators.source = "finnhub"
  /\ records[Len(records)] = [call |-> "record_failure", name |-> "primary_prices"]
  /\ pipeline.providers.primary.price_series["CLS"] = PricePool[3]
  /\ price_cache["CLS"] # None
  /\ indicator_cache["CLS"].data.asdict.source = "finnhub"

=============================================================================
